---- MODULE Spec2Model ----
(***************************************************************************)
(* Model of the conversation-analysis core of mochi_analytics:             *)
(*   core/metrics.py      calculate_core_metrics, parse_timestamp          *)
(*   core/setters.py      analyze_setters_by_sender / _by_assignment,      *)
(*                        get_time_bin                                     *)
(*   core/time_series.py  analyze_time_series                              *)
(*   core/analyzer.py     analyze_conversations, detect_date_range         *)
(*   core/models.py       Conversation.stage / created_at /                *)
(*                        get_actual_messages                              *)
(*                                                                         *)
(* Time is counted in whole seconds; a datetime is its wall-clock reading  *)
(* in seconds since day 0 00:00 (day 0 is a Thursday), with its UTC offset *)
(* when it is zone-aware.  A raised exception is a result whose `raised`   *)
(* field names the exception type.                                         *)
(***************************************************************************)
EXTENDS Integers, Sequences, FiniteSets, TLC

VARIABLES conversations, pc, call, ret, locals, calls

vars == <<conversations, pc, call, ret, locals, calls>>

(***************************************************************************)
(* Bounds of the model.                                                    *)
(***************************************************************************)
MaxConversations == 2
MaxEntries == 3

(***************************************************************************)
(* Program constants.                                                      *)
(***************************************************************************)
SecondsPerHour == 3600
ReplyWindowHours == 48
DelayedResponseHours == 24
HoursPerBin == 3
SecondsPerDay == 24 * SecondsPerHour

STAGE_TYPES ==
  <<"NEW_LEAD", "IN_CONTACT", "QUALIFIED", "UNQUALIFIED", "BOOKED_CALL",
    "DEPOSIT", "WON", "LOST", "NO_SHOW">>

TIME_BINS ==
  <<"00_03", "03_06", "06_09", "09_12", "12_15", "15_18", "18_21", "21_24">>

MEDIA_TYPES == {"image", "video", "audio", "file", "other"}

Range(s) == {s[i] : i \in DOMAIN s}

None == "None"

(***************************************************************************)
(* Python dict / Counter helpers: a dict is a function whose DOMAIN is its *)
(* key set.                                                                *)
(***************************************************************************)
EmptyDict == [k \in {} |-> 0]

DictGet(d, k, default) == IF k \in DOMAIN d THEN d[k] ELSE default

DictInc(d, k) ==
  [x \in (DOMAIN d) \cup {k} |-> IF x = k THEN DictGet(d, k, 0) + 1 ELSE d[x]]

ZeroDict(keys) == [k \in keys |-> 0]

(***************************************************************************)
(* Timestamp strings.  `form` is the shape of the text:                    *)
(*   "Z"        2025-01-15T10:30:00Z                                       *)
(*   "offset"   2025-01-15T10:30:00+05:00   (off = the offset in seconds)  *)
(*   "naive"    2025-01-15T10:30:00                                        *)
(*   "date"     2025-01-15                                                 *)
(*   "datejunk" 2025-01-15T<not a time>                                    *)
(*   "bad"      text that is no date at all                                *)
(*   "empty"    the empty string                                           *)
(* `wall` is the wall-clock reading the text spells out.                   *)
(***************************************************************************)
TsZ(t) == [form |-> "Z", wall |-> t, off |-> 0]
TsOffset(t, o) == [form |-> "offset", wall |-> t, off |-> o]
TsNaive(t) == [form |-> "naive", wall |-> t, off |-> 0]
TsDate(t) == [form |-> "date", wall |-> t, off |-> 0]
TsBad == [form |-> "bad", wall |-> 0, off |-> 0]
TsEmpty == [form |-> "empty", wall |-> 0, off |-> 0]

\* datetime values
Aware(w, o) == [ok |-> TRUE, aware |-> TRUE, wall |-> w, off |-> o]
Naive(w) == [ok |-> TRUE, aware |-> FALSE, wall |-> w, off |-> 0]
ValueError == [ok |-> FALSE, aware |-> FALSE, wall |-> 0, off |-> 0]

Midnight(w) == (w \div SecondsPerDay) * SecondsPerDay

\* metrics.py parse_timestamp: a trailing Z becomes +00:00; fromisoformat;
\* the same call again; last resort the text before 'T' as a date.
parse_timestamp(s) ==
  CASE s.form = "Z" -> Aware(s.wall, 0)
    [] s.form = "offset" -> Aware(s.wall, s.off)
    [] s.form = "naive" -> Naive(s.wall)
    [] s.form = "date" -> Naive(Midnight(s.wall))
    [] s.form = "datejunk" -> Naive(Midnight(s.wall))
    [] OTHER -> ValueError

\* datetime arithmetic
UtcSeconds(d) == d.wall - d.off
total_seconds(x, y) ==
  IF x.aware THEN UtcSeconds(x) - UtcSeconds(y) ELSE x.wall - y.wall
hour(d) == (d.wall \div SecondsPerHour) % 24
date(d) == d.wall \div SecondsPerDay

\* pytz: tzinfo-less datetimes are localized as UTC, then converted.
TimeZoneOffset(tz) ==
  CASE tz = "UTC" -> 0
    [] tz = "Etc/GMT+5" -> -5 * SecondsPerHour
    [] tz = "Etc/GMT-3" -> 3 * SecondsPerHour
localize_utc(d) == IF d.aware THEN d ELSE Aware(d.wall, 0)
astimezone(d, tz) == Aware(UtcSeconds(d) + TimeZoneOffset(tz), TimeZoneOffset(tz))

(***************************************************************************)
(* models.py: raw entries, Message, Conversation.                          *)
(* A raw entry is a dict; `keys` is the set of keys it carries.            *)
(***************************************************************************)
RawMessage(sender, ts, sent_by, attachments) ==
  [keys |-> {"sender", "content", "created_at"}, sender |-> sender,
   content |-> "text", created_at |-> ts, sent_by |-> sent_by,
   attachments |-> attachments]

\* a status-change event: no "sender" key
RawStatusChange(ts) ==
  [keys |-> {"status_change", "created_at"}, sender |-> None,
   content |-> None, created_at |-> ts, sent_by |-> None,
   attachments |-> <<>>]

\* an entry with sender and content but without the required created_at:
\* Message(**msg) fails validation
RawMalformed(sender) ==
  [keys |-> {"sender", "content"}, sender |-> sender,
   content |-> "text", created_at |-> TsEmpty, sent_by |-> None,
   attachments |-> <<>>]

MessageValidates(m) == {"sender", "content", "created_at"} \subseteq m.keys

Message(m) ==
  [sender |-> m.sender, content |-> m.content, timestamp |-> m.created_at,
   sent_by |-> m.sent_by, media |-> m.attachments]

\* Conversation.get_actual_messages
RECURSIVE get_actual_messages_from(_, _)
get_actual_messages_from(raw, i) ==
  IF i > Len(raw) THEN <<>>
  ELSE LET msg == raw[i]
           rest == get_actual_messages_from(raw, i + 1)
       IN IF "sender" \in msg.keys /\ "content" \in msg.keys /\ MessageValidates(msg)
          THEN <<Message(msg)>> \o rest
          ELSE rest

get_actual_messages(conv) == get_actual_messages_from(conv.messages, 1)

stage(conv) ==
  LET \* Conversation.stage
      stage_mapping ==
        [s \in {"NEW", "QUALIFIED", "BOOKED", "BOOKED_CALL", "WON", "LOST",
                "UNQUALIFIED", "IN_CONTACT", "DEPOSIT", "NO_SHOW"} |->
           CASE s = "NEW" -> "NEW_LEAD"
             [] s = "BOOKED" -> "BOOKED_CALL"
             [] OTHER -> s]
  IN
  DictGet(stage_mapping, conv.current_stage, conv.current_stage)

\* Conversation.created_at: the created_at of the first entry that has a
\* "sender" key ("" when that entry has none, or when there is no such entry)
RECURSIVE created_at_from(_, _)
created_at_from(raw, i) ==
  IF i > Len(raw) THEN TsEmpty
  ELSE IF "sender" \in raw[i].keys
       THEN (IF "created_at" \in raw[i].keys THEN raw[i].created_at ELSE TsEmpty)
       ELSE created_at_from(raw, i + 1)

created_at(conv) == created_at_from(conv.messages, 1)

(***************************************************************************)
(* The reply rule shared by the core metrics and both setter passes        *)
(* (metrics.py 55-71, setters.py 58-71 and 158-171).                       *)
(***************************************************************************)
RECURSIVE first_lead_after(_, _)
first_lead_after(messages, j) ==
  IF j > Len(messages) THEN 0
  ELSE IF messages[j].sender = "LEAD" THEN j
  ELSE first_lead_after(messages, j + 1)

within_reply_window(time_diff) == time_diff <= ReplyWindowHours * SecondsPerHour

NoReply(err) == [raised |-> err, reply_found |-> FALSE, time_diff |-> 0]

\* check_reply without the break of metrics.py line 68: the scan goes on past
\* a first LEAD message that is too late
RECURSIVE lead_in_window_after(_, _, _)
lead_in_window_after(messages, msg_time, j) ==
  IF j > Len(messages) THEN 0
  ELSE IF messages[j].sender = "LEAD"
          /\ within_reply_window(
               total_seconds(parse_timestamp(messages[j].timestamp), msg_time))
       THEN j
       ELSE lead_in_window_after(messages, msg_time, j + 1)

check_reply_scan_on(messages, i) ==
  LET msg_time == parse_timestamp(messages[i].timestamp)
      j == lead_in_window_after(messages, msg_time, i + 1)
  IN IF j = 0 THEN NoReply("none")
     ELSE [raised |-> "none", reply_found |-> TRUE,
           time_diff |-> total_seconds(parse_timestamp(messages[j].timestamp), msg_time)]

\* the CREATOR message at position i: was it replied, and after how long
check_reply(messages, i) ==
  LET CanSubtract(x, y) == x.aware = y.aware
  IN
  LET msg_time == parse_timestamp(messages[i].timestamp)
      j == first_lead_after(messages, i + 1)
  IN IF ~msg_time.ok THEN NoReply("ValueError")
     ELSE IF j = 0 THEN NoReply("none")
     ELSE LET future_time == parse_timestamp(messages[j].timestamp)
          IN IF ~future_time.ok THEN NoReply("ValueError")
             ELSE IF ~CanSubtract(future_time, msg_time) THEN NoReply("TypeError")
             ELSE LET time_diff == total_seconds(future_time, msg_time)
                  IN IF within_reply_window(time_diff)
                     THEN [raised |-> "none", reply_found |-> TRUE,
                           time_diff |-> time_diff]
                     ELSE NoReply("none")

(***************************************************************************)
(* Arithmetic of the result fields.                                        *)
(***************************************************************************)

RECURSIVE InsertSorted(_, _)
InsertSorted(s, x) ==
  IF s = <<>> THEN <<x>>
  ELSE IF x <= Head(s) THEN <<x>> \o s
  ELSE <<Head(s)>> \o InsertSorted(Tail(s), x)

RECURSIVE sorted(_)
sorted(s) == IF s = <<>> THEN <<>> ELSE InsertSorted(sorted(Tail(s)), Head(s))

\* median_delay with the even case halved by floor division (//) instead of
\* int() of the float average
median_delay_floor(reply_delays) ==
  LET n == Len(reply_delays)
      data == sorted(reply_delays)
  IN IF n = 0 THEN 0
     ELSE IF n % 2 = 1 THEN data[(n \div 2) + 1]
     ELSE (data[n \div 2] + data[(n \div 2) + 1]) \div 2

\* int(statistics.median(reply_delays)) if reply_delays else 0
median_delay(reply_delays) ==
  LET \* integer division truncating toward zero, as int() of a float does
      TruncDiv(a, b) == IF a >= 0 THEN a \div b ELSE -((-a) \div b)
  IN
  LET n == Len(reply_delays)
      data == sorted(reply_delays)
  IN IF n = 0 THEN 0
     ELSE IF n % 2 = 1 THEN data[(n \div 2) + 1]
     ELSE TruncDiv(data[n \div 2] + data[(n \div 2) + 1], 2)

\* round(x, 2) of the percentage num / den * 100, in hundredths of a percent
\* (ties go to the even hundredth)
Round2Percent(num, den) ==
  LET q == (num * 10000) \div den
      r == (num * 10000) % den
  IN IF 2 * r > den THEN q + 1
     ELSE IF 2 * r < den THEN q
     ELSE IF q % 2 = 0 THEN q ELSE q + 1

\* reply_rate whose default for "no CREATOR messages" is 100.0
reply_rate_default_full(with_reply, total_creator_messages) ==
  IF total_creator_messages > 0
  THEN Round2Percent(with_reply, total_creator_messages)
  ELSE 10000

\* reply rate in hundredths of a percent (10000 = 100.0)
reply_rate(with_reply, total_creator_messages) ==
  IF total_creator_messages > 0
  THEN Round2Percent(with_reply, total_creator_messages)
  ELSE 0

(***************************************************************************)
(* metrics.py calculate_core_metrics                                       *)
(***************************************************************************)
RECURSIVE count_media(_, _, _)
count_media(media, k, acc) ==
  IF k > Len(media) THEN acc
  ELSE LET media_type == media[k]
           bucket == IF media_type \in MEDIA_TYPES THEN media_type ELSE "other"
       IN count_media(media, k + 1,
            [acc EXCEPT !.media_count = @ + 1,
                        !.media_by_type = DictInc(@, bucket)])

CoreInit ==
  [raised |-> "none", messages_received |-> 0, messages_sent |-> 0,
   messages_from_mochi |-> 0, creator_messages_with_reply |-> 0,
   total_creator_messages |-> 0, reply_delays |-> <<>>,
   stage_changes |-> EmptyDict, media_count |-> 0, media_by_type |-> EmptyDict]

core_message(messages, i, acc) ==
  LET msg == messages[i]
      counted ==
        IF msg.sender = "LEAD"
        THEN [acc EXCEPT !.messages_received = @ + 1]
        ELSE IF msg.sender = "CREATOR"
        THEN LET r == check_reply(messages, i)
             IN [acc EXCEPT
                   !.messages_sent = @ + 1,
                   !.messages_from_mochi = @ + 1,
                   !.total_creator_messages = @ + 1,
                   !.raised = r.raised,
                   !.reply_delays = IF r.reply_found THEN Append(@, r.time_diff) ELSE @,
                   !.creator_messages_with_reply = IF r.reply_found THEN @ + 1 ELSE @]
        ELSE acc
  IN IF counted.raised # "none" THEN counted
     ELSE count_media(msg.media, 1, counted)

RECURSIVE core_messages(_, _, _)
core_messages(messages, i, acc) ==
  IF i > Len(messages) \/ acc.raised # "none" THEN acc
  ELSE core_messages(messages, i + 1, core_message(messages, i, acc))

core_conversation(conv, acc) ==
  LET staged == IF stage(conv) # ""
                THEN [acc EXCEPT !.stage_changes = DictInc(@, stage(conv))]
                ELSE acc
  IN core_messages(get_actual_messages(conv), 1, staged)

RECURSIVE core_conversations(_, _, _)
core_conversations(convs, k, acc) ==
  IF k > Len(convs) \/ acc.raised # "none" THEN acc
  ELSE core_conversations(convs, k + 1, core_conversation(convs[k], acc))

Raised(err) == [raised |-> err]

calculate_core_metrics(convs) ==
  LET acc == core_conversations(convs, 1, CoreInit)
  IN IF acc.raised # "none" THEN Raised(acc.raised)
     ELSE [raised |-> "none",
           total_conversations |-> Len(convs),
           total_messages_received |-> acc.messages_received,
           total_messages_sent |-> acc.messages_sent,
           total_messages_sent_from_mochi |-> acc.messages_from_mochi,
           creator_messages_with_reply_within_48h |-> acc.creator_messages_with_reply,
           creator_message_reply_rate_within_48h |->
             reply_rate(acc.creator_messages_with_reply, acc.total_creator_messages),
           median_reply_delay_seconds |-> median_delay(acc.reply_delays),
           stage_changes |-> acc.stage_changes,
           media |-> [total |-> acc.media_count, by_type |-> acc.media_by_type]]

(***************************************************************************)
(* setters.py get_time_bin                                                 *)
(***************************************************************************)
\* get_time_bin with the last label misspelt
get_time_bin_typo(h) ==
  IF 0 <= h /\ h < 3 THEN "00_03"
  ELSE IF 3 <= h /\ h < 6 THEN "03_06"
  ELSE IF 6 <= h /\ h < 9 THEN "06_09"
  ELSE IF 9 <= h /\ h < 12 THEN "09_12"
  ELSE IF 12 <= h /\ h < 15 THEN "12_15"
  ELSE IF 15 <= h /\ h < 18 THEN "15_18"
  ELSE IF 18 <= h /\ h < 21 THEN "18_21"
  ELSE "21_00"

get_time_bin(h) ==
  IF 0 <= h /\ h < 3 THEN "00_03"
  ELSE IF 3 <= h /\ h < 6 THEN "03_06"
  ELSE IF 6 <= h /\ h < 9 THEN "06_09"
  ELSE IF 9 <= h /\ h < 12 THEN "09_12"
  ELSE IF 12 <= h /\ h < 15 THEN "12_15"
  ELSE IF 15 <= h /\ h < 18 THEN "15_18"
  ELSE IF 18 <= h /\ h < 21 THEN "18_21"
  ELSE "21_24"

(***************************************************************************)
(* setters.py: the two setter passes.  setter_data is a defaultdict: a key *)
(* is created, with create_setter_data(), the first time it is read.       *)
(***************************************************************************)
\* create_setter_data with maps that start empty instead of zero-filled
create_setter_data_unfilled ==
  [conversations |-> {}, messages_sent |-> 0, creator_messages_with_reply |-> 0,
   total_creator_messages |-> 0, reply_delays |-> <<>>,
   stage_changes |-> EmptyDict,
   setter_activity |-> EmptyDict,
   lead_activity |-> EmptyDict,
   delayed_responses |-> EmptyDict]

create_setter_data ==
  [conversations |-> {}, messages_sent |-> 0, creator_messages_with_reply |-> 0,
   total_creator_messages |-> 0, reply_delays |-> <<>>,
   stage_changes |-> ZeroDict(Range(STAGE_TYPES)),
   setter_activity |-> ZeroDict(Range(TIME_BINS)),
   lead_activity |-> ZeroDict(Range(TIME_BINS)),
   delayed_responses |-> ZeroDict(Range(TIME_BINS))]

\* setter_data[setter], creating the entry when missing
Touch(setter_data, setter) ==
  IF setter \in DOMAIN setter_data THEN setter_data
  ELSE [x \in (DOMAIN setter_data) \cup {setter} |->
          IF x = setter THEN create_setter_data ELSE setter_data[x]]

\* a CREATOR message that also counts, as the time-series does, a delayed
\* response in its setter's delayed_responses
creator_message_data_counting_delays(data, messages, i, msg_time, r) ==
  LET prev_time == parse_timestamp(messages[i - 1].timestamp)
      delayed == /\ i > 1
                 /\ messages[i - 1].sender = "LEAD"
                 /\ prev_time.ok
                 /\ total_seconds(localize_utc(msg_time), localize_utc(prev_time))
                      > DelayedResponseHours * SecondsPerHour
  IN [data EXCEPT
        !.messages_sent = @ + 1,
        !.total_creator_messages = @ + 1,
        !.setter_activity = DictInc(@, get_time_bin(hour(msg_time))),
        !.delayed_responses = IF delayed THEN DictInc(@, get_time_bin(hour(msg_time)))
                              ELSE @,
        !.reply_delays = IF r.reply_found THEN Append(@, r.time_diff) ELSE @,
        !.creator_messages_with_reply = IF r.reply_found THEN @ + 1 ELSE @]

\* what a CREATOR message adds to its setter's data (setters.py 49-71, 150-171)
creator_message_data(data, messages, i, msg_time, r) ==
  [data EXCEPT
     !.messages_sent = @ + 1,
     !.total_creator_messages = @ + 1,
     !.setter_activity = DictInc(@, get_time_bin(hour(msg_time))),
     !.reply_delays = IF r.reply_found THEN Append(@, r.time_diff) ELSE @,
     !.creator_messages_with_reply = IF r.reply_found THEN @ + 1 ELSE @]

\* SetterMetrics whose reply rate is taken per conversation, not per message
SetterMetrics_per_conversation(data) ==
  [total_conversations |-> Cardinality(data.conversations),
   total_messages_sent_from_mochi |-> data.messages_sent,
   creator_messages_with_reply_within_48h |-> data.creator_messages_with_reply,
   creator_message_reply_rate_within_48h |->
     reply_rate(data.creator_messages_with_reply, Cardinality(data.conversations)),
   median_reply_delay_seconds |-> median_delay(data.reply_delays),
   stage_changes |-> data.stage_changes,
   setter_activity_by_time |-> data.setter_activity,
   lead_activity_by_time |-> data.lead_activity,
   delayed_responses_by_time |-> data.delayed_responses]

\* SetterMetrics whose total_conversations counts the conversation records
\* attributed to the setter, not their distinct ids
SetterMetrics_counting_records(data) ==
  LET RECURSIVE Total(_)
      Total(S) == IF S = {} THEN 0
                  ELSE LET st == CHOOSE x \in S : TRUE
                       IN data.stage_changes[st] + Total(S \ {st})
  IN [total_conversations |-> Total(DOMAIN data.stage_changes),
      total_messages_sent_from_mochi |-> data.messages_sent,
      creator_messages_with_reply_within_48h |-> data.creator_messages_with_reply,
      creator_message_reply_rate_within_48h |->
        reply_rate(data.creator_messages_with_reply, data.total_creator_messages),
      median_reply_delay_seconds |-> median_delay(data.reply_delays),
      stage_changes |-> data.stage_changes,
      setter_activity_by_time |-> data.setter_activity,
      lead_activity_by_time |-> data.lead_activity,
      delayed_responses_by_time |-> data.delayed_responses]

\* SetterMetrics(...) of one setter's data (setters.py 88-106, 181-199)
SetterMetrics(data) ==
  [total_conversations |-> Cardinality(data.conversations),
   total_messages_sent_from_mochi |-> data.messages_sent,
   creator_messages_with_reply_within_48h |-> data.creator_messages_with_reply,
   creator_message_reply_rate_within_48h |->
     reply_rate(data.creator_messages_with_reply, data.total_creator_messages),
   median_reply_delay_seconds |-> median_delay(data.reply_delays),
   stage_changes |-> data.stage_changes,
   setter_activity_by_time |-> data.setter_activity,
   lead_activity_by_time |-> data.lead_activity,
   delayed_responses_by_time |-> data.delayed_responses]

SetterResult(acc) ==
  IF acc.raised # "none" THEN Raised(acc.raised)
  ELSE [raised |-> "none",
        setters |-> [s \in DOMAIN acc.setter_data |-> SetterMetrics(acc.setter_data[s])]]

\* ---- analyze_setters_by_sender ----
\* the attribution with a fallback to the conversation's owner
message_setter_or_owner(conv, msg) ==
  IF msg.sent_by # None THEN msg.sent_by ELSE conv.setter_email

\* line 43: a CREATOR message is attributed to its sent_by field only
message_setter(conv, msg) == msg.sent_by

sender_message(conv, messages, i, acc) ==
  LET msg == messages[i]
  IN IF msg.sender = "CREATOR"
     THEN IF message_setter(conv, msg) = None THEN acc
          ELSE LET setter == message_setter(conv, msg)
                   msg_time == parse_timestamp(msg.timestamp)
                   r == check_reply(messages, i)
                   sd == Touch(acc.setter_data, setter)
               IN IF ~msg_time.ok THEN [acc EXCEPT !.raised = "ValueError"]
                  ELSE IF r.raised # "none" THEN [acc EXCEPT !.raised = r.raised]
                  ELSE [acc EXCEPT
                          !.setters_in_conv = @ \cup {setter},
                          !.setter_data =
                             [sd EXCEPT ![setter] =
                                creator_message_data(
                                  [sd[setter] EXCEPT !.conversations = @ \cup {conv.conversation_id}],
                                  messages, i, msg_time, r)]]
     ELSE IF msg.sender = "LEAD"
     THEN LET msg_time == parse_timestamp(msg.timestamp)
          IN IF ~msg_time.ok THEN [acc EXCEPT !.raised = "ValueError"]
             ELSE [acc EXCEPT
                     !.setter_data =
                        [s \in DOMAIN @ |->
                           IF s \in acc.setters_in_conv
                           THEN [@[s] EXCEPT !.lead_activity =
                                   DictInc(@, get_time_bin(hour(msg_time)))]
                           ELSE @[s]]]
     ELSE acc

RECURSIVE sender_messages(_, _, _, _)
sender_messages(conv, messages, i, acc) ==
  IF i > Len(messages) \/ acc.raised # "none" THEN acc
  ELSE sender_messages(conv, messages, i + 1, sender_message(conv, messages, i, acc))

sender_conversation(conv, acc) ==
  LET done == sender_messages(conv, get_actual_messages(conv), 1,
                              [acc EXCEPT !.setters_in_conv = {}])
  IN IF done.raised # "none" \/ stage(conv) = "" THEN done
     ELSE [done EXCEPT
             !.setter_data =
                [s \in DOMAIN @ |->
                   IF s \in done.setters_in_conv
                   THEN [@[s] EXCEPT !.stage_changes = DictInc(@, stage(conv))]
                   ELSE @[s]]]

RECURSIVE sender_conversations(_, _, _)
sender_conversations(convs, k, acc) ==
  IF k > Len(convs) \/ acc.raised # "none" THEN acc
  ELSE sender_conversations(convs, k + 1, sender_conversation(convs[k], acc))

SetterInit == [raised |-> "none", setter_data |-> EmptyDict, setters_in_conv |-> {}]

analyze_setters_by_sender(convs) ==
  SetterResult(sender_conversations(convs, 1, SetterInit))

\* ---- analyze_setters_by_assignment ----
\* the by-assignment step leaving out, as the by-sender pass does, a CREATOR
\* message that has no sent_by
assignment_message_needing_sent_by(setter, messages, i, acc) ==
  LET msg == messages[i]
      msg_time == parse_timestamp(msg.timestamp)
  IN IF msg.sender = "CREATOR"
     THEN LET r == check_reply(messages, i)
          IN IF msg.sent_by = None THEN acc
             ELSE IF ~msg_time.ok THEN [acc EXCEPT !.raised = "ValueError"]
             ELSE IF r.raised # "none" THEN [acc EXCEPT !.raised = r.raised]
             ELSE [acc EXCEPT !.setter_data[setter] =
                     creator_message_data(@, messages, i, msg_time, r)]
     ELSE IF msg.sender = "LEAD"
     THEN IF ~msg_time.ok THEN [acc EXCEPT !.raised = "ValueError"]
          ELSE [acc EXCEPT !.setter_data[setter].lead_activity =
                  DictInc(@, get_time_bin(hour(msg_time)))]
     ELSE acc

assignment_message(setter, messages, i, acc) ==
  LET msg == messages[i]
      msg_time == parse_timestamp(msg.timestamp)
  IN IF msg.sender = "CREATOR"
     THEN LET r == check_reply(messages, i)
          IN IF ~msg_time.ok THEN [acc EXCEPT !.raised = "ValueError"]
             ELSE IF r.raised # "none" THEN [acc EXCEPT !.raised = r.raised]
             ELSE [acc EXCEPT !.setter_data[setter] =
                     creator_message_data(@, messages, i, msg_time, r)]
     ELSE IF msg.sender = "LEAD"
     THEN IF ~msg_time.ok THEN [acc EXCEPT !.raised = "ValueError"]
          ELSE [acc EXCEPT !.setter_data[setter].lead_activity =
                  DictInc(@, get_time_bin(hour(msg_time)))]
     ELSE acc

RECURSIVE assignment_messages(_, _, _, _)
assignment_messages(setter, messages, i, acc) ==
  IF i > Len(messages) \/ acc.raised # "none" THEN acc
  ELSE assignment_messages(setter, messages, i + 1,
                           assignment_message(setter, messages, i, acc))

assignment_conversation(conv, acc) ==
  LET setter == conv.setter_email
      sd == Touch(acc.setter_data, setter)
      owned == [sd EXCEPT ![setter].conversations = @ \cup {conv.conversation_id}]
      staged == IF stage(conv) # ""
                THEN [owned EXCEPT ![setter].stage_changes = DictInc(@, stage(conv))]
                ELSE owned
  IN assignment_messages(setter, get_actual_messages(conv), 1,
                         [acc EXCEPT !.setter_data = staged])

RECURSIVE assignment_conversations(_, _, _)
assignment_conversations(convs, k, acc) ==
  IF k > Len(convs) \/ acc.raised # "none" THEN acc
  ELSE assignment_conversations(convs, k + 1, assignment_conversation(convs[k], acc))

analyze_setters_by_assignment(convs) ==
  SetterResult(assignment_conversations(convs, 1, SetterInit))

(***************************************************************************)
(* time_series.py analyze_time_series.  Dates are day numbers.             *)
(***************************************************************************)
\* TimeSeriesInit with histograms that start empty instead of zero-filled
TimeSeriesInit_unfilled ==
  [raised |-> "none", daily_stages |-> EmptyDict,
   lead_activity |-> EmptyDict, setter_activity |-> EmptyDict,
   delayed_responses |-> EmptyDict]

TimeSeriesInit ==
  [raised |-> "none", daily_stages |-> EmptyDict,
   lead_activity |-> ZeroDict(Range(TIME_BINS)),
   setter_activity |-> ZeroDict(Range(TIME_BINS)),
   delayed_responses |-> ZeroDict(Range(TIME_BINS))]

\* the threshold test with >= for >
is_delayed_inclusive(delay) == delay >= DelayedResponseHours * SecondsPerHour

is_delayed(delay) == delay > DelayedResponseHours * SecondsPerHour

\* lines 66-76: the backward, adjacent-message check of a CREATOR message
delayed_response(messages, i, msg_time) ==
  IF i > 1 /\ messages[i - 1].sender = "LEAD"
  THEN LET prev_time == parse_timestamp(messages[i - 1].timestamp)
       IN IF ~prev_time.ok THEN [raised |-> "ValueError", delayed |-> FALSE]
          ELSE [raised |-> "none",
                delayed |-> is_delayed(total_seconds(msg_time, localize_utc(prev_time)))]
  ELSE [raised |-> "none", delayed |-> FALSE]

time_series_message(messages, i, tz, acc) ==
  LET msg == messages[i]
      parsed == parse_timestamp(msg.timestamp)
  IN IF ~parsed.ok THEN [acc EXCEPT !.raised = "ValueError"]
     ELSE LET msg_time == localize_utc(parsed)
              time_bin == get_time_bin(hour(astimezone(msg_time, tz)))
          IN IF msg.sender = "LEAD"
             THEN [acc EXCEPT !.lead_activity = DictInc(@, time_bin)]
             ELSE IF msg.sender = "CREATOR"
             THEN LET d == delayed_response(messages, i, msg_time)
                  IN [acc EXCEPT
                        !.setter_activity = DictInc(@, time_bin),
                        !.raised = d.raised,
                        !.delayed_responses = IF d.delayed THEN DictInc(@, time_bin) ELSE @]
             ELSE acc

RECURSIVE time_series_messages(_, _, _, _)
time_series_messages(messages, i, tz, acc) ==
  IF i > Len(messages) \/ acc.raised # "none" THEN acc
  ELSE time_series_messages(messages, i + 1, tz,
                            time_series_message(messages, i, tz, acc))

\* lines 37-47, then the message loop
time_series_conversation(conv, tz, acc) ==
  LET conv_time == parse_timestamp(created_at(conv))
  IN IF ~conv_time.ok THEN [acc EXCEPT !.raised = "ValueError"]
     ELSE LET conv_date == date(astimezone(localize_utc(conv_time), tz))
              counted ==
                IF stage(conv) # ""
                THEN [acc EXCEPT !.daily_stages =
                        [d \in (DOMAIN @) \cup {conv_date} |->
                           IF d = conv_date
                           THEN DictInc(DictGet(@, conv_date, EmptyDict), stage(conv))
                           ELSE @[d]]]
                ELSE acc
          IN time_series_messages(get_actual_messages(conv), 1, tz, counted)

RECURSIVE time_series_conversations(_, _, _, _)
time_series_conversations(convs, k, tz, acc) ==
  IF k > Len(convs) \/ acc.raised # "none" THEN acc
  ELSE time_series_conversations(convs, k + 1, tz,
                                 time_series_conversation(convs[k], tz, acc))

\* strftime("%a, %d %b %y"): the weekday (0 = Monday) and the day
strftime(d) == [weekday |-> (d + 3) % 7, day |-> d]

\* lines 86-103: one DayStages entry
DayStages(current_date, daily_stages) ==
  LET day_stages == DictGet(daily_stages, current_date, EmptyDict)
  IN [date |-> strftime(current_date),
      date_iso |-> current_date,
      stages |-> [st \in Range(STAGE_TYPES) |-> DictGet(day_stages, st, 0)]]

\* the loop condition with < for <=
day_in_range_exclusive(current_date, end_date) == current_date < end_date

\* does the while loop of line 85 run once more
day_in_range(current_date, end_date) == current_date <= end_date

RECURSIVE stage_changes_by_day(_, _, _)
stage_changes_by_day(current_date, end_date, daily_stages) ==
  IF day_in_range(current_date, end_date)
  THEN <<DayStages(current_date, daily_stages)>>
       \o stage_changes_by_day(current_date + 1, end_date, daily_stages)
  ELSE <<>>

analyze_time_series(convs, start_date, end_date, tz) ==
  LET acc == time_series_conversations(convs, 1, tz, TimeSeriesInit)
  IN IF acc.raised # "none" THEN Raised(acc.raised)
     ELSE [raised |-> "none",
           stage_changes_by_day |->
             stage_changes_by_day(start_date, end_date, acc.daily_stages),
           lead_activity_by_time |-> acc.lead_activity,
           setter_activity_by_time |-> acc.setter_activity,
           delayed_responses_by_time |-> acc.delayed_responses]

(***************************************************************************)
(* analyzer.py detect_date_range and analyze_conversations                 *)
(***************************************************************************)
\* lines 138-145: the dates of the creation timestamps that parse
RECURSIVE creation_dates(_, _)
creation_dates(convs, k) ==
  IF k > Len(convs) THEN {}
  ELSE LET conv_time == parse_timestamp(created_at(convs[k]))
       IN (IF conv_time.ok THEN {date(conv_time)} ELSE {})
          \cup creation_dates(convs, k + 1)

SetMin(S) == CHOOSE x \in S : \A y \in S : x <= y
SetMax(S) == CHOOSE x \in S : \A y \in S : x >= y

\* detect_date_range falling back to today as soon as one creation
\* timestamp does not parse
detect_date_range_all_or_nothing(convs, today) ==
  LET dates == creation_dates(convs, 1)
  IN IF dates = {} \/ \E k \in DOMAIN convs : ~parse_timestamp(created_at(convs[k])).ok
     THEN <<today, today>>
     ELSE <<SetMin(dates), SetMax(dates)>>

detect_date_range(convs, today) ==
  IF Len(convs) = 0 THEN <<today, today>>
  ELSE LET dates == creation_dates(convs, 1)
       IN IF dates = {} THEN <<today, today>>
          ELSE <<SetMin(dates), SetMax(dates)>>

\* the enrichment modules (scripts, objections, avatars) are not importable

analyze_conversations(convs, config, today) ==
  LET range == IF config.has_range
               THEN <<config.start_date, config.end_date>>
               ELSE detect_date_range(convs, today)
      summary == calculate_core_metrics(convs)
      time_series == analyze_time_series(convs, range[1], range[2], config.timezone)
      setters_by_sender == analyze_setters_by_sender(convs)
      setters_by_assignment == analyze_setters_by_assignment(convs)
  IN IF summary.raised # "none" THEN Raised(summary.raised)
     ELSE IF time_series.raised # "none" THEN Raised(time_series.raised)
     ELSE IF setters_by_sender.raised # "none" THEN Raised(setters_by_sender.raised)
     ELSE IF setters_by_assignment.raised # "none" THEN Raised(setters_by_assignment.raised)
     ELSE [raised |-> "none",
           metadata |-> [timezone |-> config.timezone,
                         analysis_period |-> [start |-> range[1], end |-> range[2]]],
           summary |-> summary,
           time_series |-> time_series,
           setters_by_sent_by |-> setters_by_sender.setters,
           setters_by_assignment |-> setters_by_assignment.setters,
           scripts |-> None, objections |-> None, avatars |-> None]

(***************************************************************************)
(* Message texts.  A str is a sequence of one-character strings.           *)
(***************************************************************************)
\* the characters used, in code-point order
Alphabet == <<" ", "A", "C", "a", "b", "c">>

\* str.lower()
lower(s) ==
  LET lower_char(c) == CASE c = "A" -> "a"
                         [] c = "C" -> "c"
                         [] OTHER -> c
  IN [i \in DOMAIN s |-> lower_char(s[i])]

\* str.strip(): the string without its leading and trailing blanks
strip(s) ==
  LET inner == {i \in DOMAIN s : s[i] # " "}
  IN IF inner = {} THEN <<>> ELSE SubSeq(s, SetMin(inner), SetMax(inner))

\* str.split(): the maximal runs of non-blank characters
split(s) ==
  LET RECURSIVE split_from(_, _)
      split_from(i, word) ==
        LET done == IF word = <<>> THEN <<>> ELSE <<word>>
        IN IF i > Len(s) THEN done
           ELSE IF s[i] = " " THEN done \o split_from(i + 1, <<>>)
           ELSE split_from(i + 1, Append(word, s[i]))
  IN split_from(1, <<>>)

\* str < str
RECURSIVE str_less(_, _)
str_less(a, b) ==
  IF b = <<>> THEN FALSE
  ELSE IF a = <<>> THEN TRUE
  ELSE IF Head(a) # Head(b)
       THEN LET ord(c) == CHOOSE i \in DOMAIN Alphabet : Alphabet[i] = c
            IN ord(Head(a)) < ord(Head(b))
  ELSE str_less(Tail(a), Tail(b))

\* sorted(tokens) of a set of strings
RECURSIVE sorted_tokens(_)
sorted_tokens(S) ==
  IF S = {} THEN <<>>
  ELSE LET first == CHOOSE t \in S : \A u \in S \ {t} : str_less(t, u)
       IN <<first>> \o sorted_tokens(S \ {first})

\* " ".join(tokens)
RECURSIVE join(_)
join(tokens) ==
  IF tokens = <<>> THEN <<>>
  ELSE IF Len(tokens) = 1 THEN tokens[1]
  ELSE tokens[1] \o <<" ">> \o join(Tail(tokens))

(***************************************************************************)
(* rapidfuzz.fuzz, the scorers called by scripts.py and script_search.py.  *)
(* A score is the exact fraction num / den of the float the library        *)
(* returns, in lowest terms.                                               *)
(***************************************************************************)
Fraction(n, d) ==
  LET g == CHOOSE k \in 1..d :
             /\ n % k = 0 /\ d % k = 0
             /\ \A j \in (k + 1)..d : ~(n % j = 0 /\ d % j = 0)
  IN [num |-> n \div g, den |-> d \div g]

score_less(x, y) == x.num * y.den < y.num * x.den
MaxScore(S) == CHOOSE x \in S : \A y \in S : ~score_less(x, y)

RECURSIVE lcs_length(_, _)
lcs_length(a, b) ==
  IF a = <<>> \/ b = <<>> THEN 0
  ELSE IF Head(a) = Head(b) THEN 1 + lcs_length(Tail(a), Tail(b))
  ELSE LET x == lcs_length(Tail(a), b)
           y == lcs_length(a, Tail(b))
       IN IF x >= y THEN x ELSE y

\* Indel distance: insertions and deletions turning s1 into s2
indel_distance(s1, s2) == Len(s1) + Len(s2) - 2 * lcs_length(s1, s2)

\* 100 - 100 * dist / lensum, 100 when lensum is 0
norm_distance(dist, lensum) ==
  IF lensum = 0 THEN Fraction(100, 1) ELSE Fraction(100 * (lensum - dist), lensum)

\* fuzz.ratio
ratio(s1, s2) == norm_distance(indel_distance(s1, s2), Len(s1) + Len(s2))

partial_ratio(s1, s2) ==
  LET \* fuzz.partial_ratio: the best ratio of the shorter string against a
      \* window of the longer one (windows of the shorter string's length, and
      \* the shorter windows at either end)
      partial_ratio_impl(a, b) ==
        LET len1 == Len(a)
            len2 == Len(b)
            windows ==
              {SubSeq(b, 1, i) : i \in 1..(len1 - 1)}
              \cup {SubSeq(b, i, i + len1 - 1) : i \in 1..(len2 - len1 + 1)}
              \cup {SubSeq(b, i, len2) : i \in (len2 - len1 + 2)..len2}
        IN MaxScore({Fraction(0, 1)} \cup {ratio(a, w) : w \in windows})
  IN
  IF s1 = <<>> \/ s2 = <<>>
  THEN (IF s1 = s2 THEN Fraction(100, 1) ELSE Fraction(0, 1))
  ELSE LET shorter == IF Len(s1) <= Len(s2) THEN s1 ELSE s2
           longer == IF Len(s1) <= Len(s2) THEN s2 ELSE s1
           res == partial_ratio_impl(shorter, longer)
       IN IF res # Fraction(100, 1) /\ Len(s1) = Len(s2)
          THEN MaxScore({res, partial_ratio_impl(longer, shorter)})
          ELSE res

\* fuzz.token_set_ratio
token_set_ratio(s1, s2) ==
  LET tokens_a == Range(split(s1))
      tokens_b == Range(split(s2))
      intersect == tokens_a \cap tokens_b
      diff_ab == tokens_a \ tokens_b
      diff_ba == tokens_b \ tokens_a
      diff_ab_joined == join(sorted_tokens(diff_ab))
      diff_ba_joined == join(sorted_tokens(diff_ba))
      ab_len == Len(diff_ab_joined)
      ba_len == Len(diff_ba_joined)
      sect_len == Len(join(sorted_tokens(intersect)))
      sep == IF sect_len # 0 THEN 1 ELSE 0
      sect_ab_len == sect_len + sep + ab_len
      sect_ba_len == sect_len + sep + ba_len
      result == norm_distance(indel_distance(diff_ab_joined, diff_ba_joined),
                              sect_ab_len + sect_ba_len)
      sect_ab_ratio == norm_distance(sep + ab_len, sect_len + sect_ab_len)
      sect_ba_ratio == norm_distance(sep + ba_len, sect_len + sect_ba_len)
  IN IF tokens_a = {} \/ tokens_b = {} THEN Fraction(0, 1)
     ELSE IF intersect # {} /\ (diff_ab = {} \/ diff_ba = {}) THEN Fraction(100, 1)
     ELSE IF sect_len = 0 THEN result
     ELSE MaxScore({result, sect_ab_ratio, sect_ba_ratio})

\* similarity >= threshold, the threshold a whole number of percent
at_least(similarity, threshold) == similarity.num >= threshold * similarity.den

(***************************************************************************)
(* scripts.py extract_creator_messages and cluster_messages                *)
(***************************************************************************)
\* lines 83-87 (script_search.py 118-122): is there a LEAD message after i
has_reply(messages, i) == first_lead_after(messages, i + 1) # 0

\* lines 90-95: the up to three messages before position i
context(messages, i) ==
  [j \in 1..(IF i > 3 THEN 3 ELSE i - 1) |->
     LET prev_msg == messages[(IF i > 3 THEN i - 4 ELSE 0) + j]
     IN [sender |-> prev_msg.sender, content |-> strip(prev_msg.content)]]

RECURSIVE creator_messages_of(_, _, _)
creator_messages_of(conv, actual_messages, i) ==
  IF i > Len(actual_messages) THEN <<>>
  ELSE LET msg == actual_messages[i]
           rest == creator_messages_of(conv, actual_messages, i + 1)
       IN IF msg.sender # "CREATOR" THEN rest
          ELSE <<[text |-> strip(msg.content),
                  conv_id |-> conv.conversation_id,
                  index |-> i - 1,
                  has_reply |-> has_reply(actual_messages, i),
                  context |-> context(actual_messages, i)]>> \o rest

RECURSIVE extract_creator_messages_from(_, _)
extract_creator_messages_from(convs, k) ==
  IF k > Len(convs) THEN <<>>
  ELSE creator_messages_of(convs[k], get_actual_messages(convs[k]), 1)
       \o extract_creator_messages_from(convs, k + 1)

extract_creator_messages(convs) == extract_creator_messages_from(convs, 1)

\* the cluster whose example scores highest, if that score reaches the threshold
best_matching_cluster(clusters, text, threshold, k) ==
  LET scores == {token_set_ratio(text, clusters[c].example) : c \in DOMAIN clusters}
  IN IF clusters = <<>> \/ ~at_least(MaxScore(scores), threshold) THEN 0
     ELSE CHOOSE c \in DOMAIN clusters :
            /\ token_set_ratio(text, clusters[c].example) = MaxScore(scores)
            /\ \A d \in 1..(c - 1) :
                 token_set_ratio(text, clusters[d].example) # MaxScore(scores)

\* lines 128-135: the first cluster, from k on, whose example scores at
\* least the threshold against the text (0: none)
RECURSIVE matching_cluster(_, _, _, _)
matching_cluster(clusters, text, threshold, k) ==
  IF k > Len(clusters) THEN 0
  ELSE IF at_least(token_set_ratio(text, clusters[k].example), threshold) THEN k
  ELSE matching_cluster(clusters, text, threshold, k + 1)

\* the loop body without the break of line 135: the message joins every
\* cluster whose example scores at least the threshold
cluster_message_every_match(clusters, msg, threshold) ==
  LET fits(c) == at_least(token_set_ratio(msg.text, clusters[c].example), threshold)
  IN IF \E c \in DOMAIN clusters : fits(c)
     THEN [c \in DOMAIN clusters |->
             IF fits(c)
             THEN [clusters[c] EXCEPT !.messages = Append(@, msg), !.count = @ + 1]
             ELSE clusters[c]]
     ELSE Append(clusters, [example |-> msg.text, messages |-> <<msg>>, count |-> 1])

\* lines 124-142: one iteration of the loop over the messages
cluster_message(clusters, msg, threshold) ==
  LET k == matching_cluster(clusters, msg.text, threshold, 1)
  IN IF k # 0
     THEN [clusters EXCEPT ![k].messages = Append(@, msg), ![k].count = @ + 1]
     ELSE Append(clusters, [example |-> msg.text, messages |-> <<msg>>, count |-> 1])

RECURSIVE cluster_messages_from(_, _, _, _)
cluster_messages_from(messages, i, threshold, clusters) ==
  IF i > Len(messages) THEN clusters
  ELSE cluster_messages_from(messages, i + 1, threshold,
                             cluster_message(clusters, messages[i], threshold))

cluster_messages(messages, threshold) ==
  [raised |-> "none", clusters |-> cluster_messages_from(messages, 1, threshold, <<>>)]

(***************************************************************************)
(* script_search.py find_similar_messages                                  *)
(***************************************************************************)
\* lines 69-74
match_func(match_type, s1, s2) ==
  IF match_type = "ratio" THEN ratio(s1, s2)
  ELSE IF match_type = "partial" THEN partial_ratio(s1, s2)
  ELSE token_set_ratio(s1, s2)

\* lines 94-104; filter.has_from / has_to: date_from / date_to is not None.
\* astimezone reads a datetime without tzinfo in the system's zone, here UTC.
passes_date_filter(msg, tz, filter) ==
  IF ~(filter.has_from \/ filter.has_to) THEN TRUE
  ELSE LET msg_time == parse_timestamp(msg.timestamp)
       IN IF ~msg_time.ok THEN FALSE
          ELSE LET msg_date == date(astimezone(msg_time, tz))
               IN /\ ~(filter.has_from /\ msg_date < filter.date_from)
                  /\ ~(filter.has_to /\ msg_date > filter.date_to)

\* lines 110-134: a message that scored at least the threshold
search_match(conv, messages, i, similarity, acc) ==
  LET \* line 114: msg.sent_by or conv.setter_email or "Unknown"
      search_setter(c, m) ==
        IF m.sent_by # None THEN m.sent_by
        ELSE IF c.setter_email # None THEN c.setter_email
        ELSE "Unknown"
  IN
  LET msg == messages[i]
      setter == search_setter(conv, msg)
      replied == has_reply(messages, i)
      data == DictGet(acc.setters_breakdown, setter, [matches |-> 0, replies |-> 0])
  IN [total_matches |-> acc.total_matches + 1,
      total_replies |-> acc.total_replies + (IF replied THEN 1 ELSE 0),
      setters_breakdown |->
        [s \in (DOMAIN acc.setters_breakdown) \cup {setter} |->
           IF s = setter
           THEN [matches |-> data.matches + 1,
                 replies |-> data.replies + (IF replied THEN 1 ELSE 0)]
           ELSE acc.setters_breakdown[s]],
      all_matches |->
        Append(acc.all_matches,
               [conversation_id |-> conv.conversation_id,
                message_content |->
                  SubSeq(msg.content, 1, IF Len(msg.content) < 100
                                         THEN Len(msg.content) ELSE 100),
                similarity |-> similarity,
                has_reply |-> replied,
                setter |-> setter])]

\* lines 88-134: one iteration of the loop over a conversation's messages
search_message(conv, messages, i, query_normalized, call_args, acc) ==
  LET msg == messages[i]
      content_normalized == strip(lower(msg.content))
      similarity == match_func(call_args.match_type, query_normalized, content_normalized)
  IN IF msg.sender # call_args.sender_filter THEN acc
     ELSE IF ~passes_date_filter(msg, call_args.timezone, call_args.filter) THEN acc
     ELSE IF at_least(similarity, call_args.similarity_threshold)
     THEN search_match(conv, messages, i, similarity, acc)
     ELSE acc

RECURSIVE search_messages(_, _, _, _, _, _)
search_messages(conv, messages, i, query_normalized, call_args, acc) ==
  IF i > Len(messages) THEN acc
  ELSE search_messages(conv, messages, i + 1, query_normalized, call_args,
         search_message(conv, messages, i, query_normalized, call_args, acc))

RECURSIVE search_conversations(_, _, _, _, _)
search_conversations(convs, k, query_normalized, call_args, acc) ==
  IF k > Len(convs) THEN acc
  ELSE search_conversations(convs, k + 1, query_normalized, call_args,
         search_messages(convs[k], get_actual_messages(convs[k]), 1,
                         query_normalized, call_args, acc))

\* call_args: query_message, timezone, filter, similarity_threshold,
\* sender_filter, match_type
find_similar_messages(convs, call_args) ==
  LET \* round(x, 1) of the percentage num / den * 100, in tenths of a percent
      \* (ties go to the even tenth)
      Round1Percent(num, den) ==
        LET q == (num * 1000) \div den
            r == (num * 1000) % den
        IN IF 2 * r > den THEN q + 1
           ELSE IF 2 * r < den THEN q
           ELSE IF q % 2 = 0 THEN q ELSE q + 1
  IN
  LET SearchInit ==
        [total_matches |-> 0, total_replies |-> 0, setters_breakdown |-> EmptyDict,
         all_matches |-> <<>>]
  IN
  LET query_normalized == strip(lower(call_args.query_message))
      acc == search_conversations(convs, 1, query_normalized, call_args, SearchInit)
  IN [raised |-> "none",
      total_matches |-> acc.total_matches,
      total_replies |-> acc.total_replies,
      reply_rate |-> IF acc.total_matches > 0
                     THEN Round1Percent(acc.total_replies, acc.total_matches)
                     ELSE 0,
      setters_breakdown |->
        [s \in DOMAIN acc.setters_breakdown |->
           LET data == acc.setters_breakdown[s]
           IN [matches |-> data.matches, replies |-> data.replies,
               reply_rate |-> IF data.matches > 0
                              THEN Fraction(100 * data.replies, data.matches)
                              ELSE Fraction(0, 1)]],
      all_matches |-> acc.all_matches]

(***************************************************************************)
(* objections.py classify_batch and classify_with_adaptive_retry.          *)
(* A message is identified by its position in the input list.  The         *)
(* classification service (generate_text, then parse_json_response)        *)
(* answers a batch in one of these ways:                                   *)
(*   "raise"        the call or the JSON parsing raises                    *)
(*   "exact"        one entry per message of the batch, in order           *)
(*   "short"        the last entry is missing                              *)
(*   "long"         one entry too many                                     *)
(*   "no_category"  one entry per message, none with a "category" key      *)
(***************************************************************************)
OBJECTION_GROUPS ==
  <<"Financial Objection", "Timing Objection", "Decision Making Objection",
    "Self Confidence Objection", "Lack of Trust/Authority Objection",
    "Competitor Objection", "Lack of Information Objection">>

DEFAULT_BATCH_SIZES == <<50, 25, 8, 1>>

\* the category the service gives message m when it answers for it
CategoryOf(m) == OBJECTION_GROUPS[((m - 1) % Len(OBJECTION_GROUPS)) + 1]

\* classify_batch, lines 151-160
classify_batch(batch, outcome) ==
  LET \* the parsed JSON array of an answer that parses
      parsed_response ==
        LET entries == [j \in DOMAIN batch |->
                          [keys |-> {"message_index", "category"}, message_index |-> j,
                           category |-> CategoryOf(batch[j])]]
        IN CASE outcome = "exact" -> entries
             [] outcome = "short" -> SubSeq(entries, 1, Len(entries) - 1)
             [] outcome = "long" ->
                  Append(entries, [keys |-> {"message_index", "category"},
                                   message_index |-> Len(entries) + 1, category |-> "none"])
             [] outcome = "no_category" ->
                  [j \in DOMAIN entries |-> [entries[j] EXCEPT !.keys = {"message_index"}]]
  IN
  IF outcome = "raise" THEN [raised |-> "Exception", results |-> <<>>]
  ELSE LET parsed == parsed_response
       IN [raised |-> "none",
           results |-> [j \in DOMAIN parsed |->
                          [category |-> IF "category" \in parsed[j].keys
                                        THEN parsed[j].category
                                        ELSE "unclassified"]]]

\* s[:n] and s[n:]
take(s, n) == SubSeq(s, 1, IF n < Len(s) THEN n ELSE Len(s))
drop(s, n) == SubSeq(s, (IF n < Len(s) THEN n ELSE Len(s)) + 1, Len(s))

\* line 90
current_batch_size(batch_sizes) == IF batch_sizes # <<>> THEN batch_sizes[1] ELSE 1

\* the success branch going back to the first tier for the next batch
on_success_first_tier(loc, results, batch_size) ==
  [loc EXCEPT !.all_results = @ \o results,
                 !.remaining_messages = drop(@, batch_size),
                 !.batch_sizes = call.batch_sizes]

\* lines 96-97
on_success(loc, results, batch_size) ==
  [loc EXCEPT !.all_results = @ \o results,
                 !.remaining_messages = drop(@, batch_size)]

\* the failure branch giving up on everything left after a single-item failure
on_failure_give_up(loc) ==
  IF Len(loc.batch_sizes) > 1
  THEN [loc EXCEPT !.batch_sizes = Tail(@)]
  ELSE [loc EXCEPT !.all_results = Append(@, [category |-> "unclassified"]),
                      !.remaining_messages = <<>>]

\* lines 101-112
on_failure(loc) ==
  IF Len(loc.batch_sizes) > 1
  THEN [loc EXCEPT !.batch_sizes = Tail(@)]
  ELSE [loc EXCEPT !.all_results = Append(@, [category |-> "unclassified"]),
                      !.remaining_messages = drop(@, 1)]

\* lines 90-112: one iteration of the while loop
retry_iteration(loc, outcome) ==
  LET batch_size == current_batch_size(loc.batch_sizes)
      batch == take(loc.remaining_messages, batch_size)
      r == classify_batch(batch, outcome)
  IN IF r.raised = "none" THEN on_success(loc, r.results, batch_size)
     ELSE on_failure(loc)

\* the tier list cut down by an earlier call staying cut down for the next
retry_locals_keeping_tiers(messages, batch_sizes) ==
  [remaining_messages |-> messages,
   batch_sizes |-> IF pc = "returned" THEN locals.batch_sizes ELSE batch_sizes,
   all_results |-> <<>>]

\* lines 86-87
retry_locals(messages, batch_sizes) ==
  [remaining_messages |-> messages, batch_sizes |-> batch_sizes, all_results |-> <<>>]

(***************************************************************************)
(* scripts.py categorize_and_generate_topics.  A cluster is named by its   *)
(* position in the list; "unset" marks a key the dict does not have yet.   *)
(***************************************************************************)
SCRIPT_CATEGORIES == <<"opener", "follow_up", "nurture_discovery", "cta">>

initial_batch_size == 20

\* lines 196-199: the positions of the clusters of initial batch b (from 0)
initial_batch(n, b) ==
  [j \in 1..(IF n - b * initial_batch_size < initial_batch_size
             THEN n - b * initial_batch_size ELSE initial_batch_size) |->
     b * initial_batch_size + j]

\* len(initial_batches)
number_of_batches(n) == (n + initial_batch_size - 1) \div initial_batch_size

\* categorize_batch_with_context: the parsed JSON object of the service's
\* answer for a batch.  present: the script ids (from 0) it has a key for;
\* malformed: those whose value is not an object
categorize_batch_with_context(batch, outcome) ==
  LET all == 0..(Len(batch) - 1)
      last == {Len(batch) - 1}
  IN CASE outcome = "raise" -> [raised |-> "Exception", present |-> {}, malformed |-> {}]
       [] outcome = "exact" -> [raised |-> "none", present |-> all, malformed |-> {}]
       [] outcome = "missing" -> [raised |-> "none", present |-> all \ last, malformed |-> {}]
       [] outcome = "malformed" -> [raised |-> "none", present |-> all, malformed |-> last]

\* lines 209-216 (239-245): the results applied to the clusters of a batch,
\* one after the other from script id idx on, until .get() fails on a value
\* that is not an object
RECURSIVE apply_results(_, _, _, _)
apply_results(clusters, batch, results, idx) ==
  IF idx >= Len(batch) THEN [raised |-> "none", clusters |-> clusters]
  ELSE IF idx \in results.present /\ idx \in results.malformed
  THEN [raised |-> "AttributeError", clusters |-> clusters]
  ELSE LET c == batch[idx + 1]
           category == SCRIPT_CATEGORIES[(c % Len(SCRIPT_CATEGORIES)) + 1]
           answered == [clusters EXCEPT ![c].category = category,
                                        ![c].topic = "topic: " \o category]
           absent == [clusters EXCEPT ![c].category = None, ![c].topic = None]
       IN apply_results(IF idx \in results.present THEN answered ELSE absent,
                        batch, results, idx + 1)

\* the retry step leaving a cluster untouched when its retry fails
retry_step_leaving_unset(loc, outcome) ==
  LET c == loc.retry_queue[loc.retry_idx + 1]
      results == categorize_batch_with_context(<<c>>, outcome)
      applied == apply_results(loc.clusters, <<c>>, results, 0)
  IN [loc EXCEPT !.clusters = IF results.raised = "none" /\ applied.raised = "none"
                              THEN applied.clusters ELSE @,
                 !.retry_idx = @ + 1]

\* lines 203-223: one iteration of the loop over the initial batches
initial_batch_step(loc, outcome) ==
  LET batch == initial_batch(Len(loc.clusters), loc.batch_idx)
      results == categorize_batch_with_context(batch, outcome)
      applied == apply_results(loc.clusters, batch, results, 0)
  IN IF results.raised # "none"
     THEN [loc EXCEPT !.retry_queue = @ \o batch, !.batch_idx = @ + 1]
     ELSE [loc EXCEPT !.clusters = applied.clusters,
                      !.retry_queue = IF applied.raised # "none" THEN @ \o batch ELSE @,
                      !.batch_idx = @ + 1]

\* lines 233-250: one iteration of the loop over the retry queue
retry_step(loc, outcome) ==
  LET c == loc.retry_queue[loc.retry_idx + 1]
      results == categorize_batch_with_context(<<c>>, outcome)
      applied == apply_results(loc.clusters, <<c>>, results, 0)
  IN [loc EXCEPT !.clusters =
                   IF results.raised = "none" /\ applied.raised = "none"
                   THEN applied.clusters
                   ELSE [@ EXCEPT ![c].category = None, ![c].topic = None],
                 !.retry_idx = @ + 1]

\* lines 192-193: the locals when the first loop is entered
categorize_locals(n) ==
  [clusters |-> [c \in 1..n |-> [example |-> c, category |-> "unset", topic |-> "unset"]],
   batch_idx |-> 0, retry_queue |-> <<>>, retry_idx |-> 0]

\* group_by_category, line 417: the key a cluster is reported under
reported_category(cluster) ==
  IF cluster.category \in {None, "unset"} THEN "uncategorized" ELSE cluster.category

(***************************************************************************)
(* Inputs.  Instants are chosen so that list-order pairs of a CREATOR and  *)
(* a LEAD message lie exactly 48 h apart, less and more than 48 h apart,   *)
(* and in reverse timestamp order, and so that a LEAD message lies exactly *)
(* 24 h and more than 24 h before a CREATOR message.                       *)
(***************************************************************************)

EntryDomain ==
  LET LeadInstants == {24 * SecondsPerHour, 96 * SecondsPerHour, 99 * SecondsPerHour + 1}
  IN
  LET CreatorSendings ==
        {<<48 * SecondsPerHour, "alice">>, <<48 * SecondsPerHour, None>>,
         <<51 * SecondsPerHour + 1, "alice">>, <<51 * SecondsPerHour + 1, "bob">>}
  IN
  {RawMessage("LEAD", TsZ(t), None, <<>>) : t \in LeadInstants}
  \cup {RawMessage("CREATOR", TsZ(c[1]), c[2], <<>>) : c \in CreatorSendings}
  \cup {RawStatusChange(TsZ(0))}

ConversationKinds ==
  {[current_stage |-> "NEW", setter_email |-> "alice"],
   [current_stage |-> "CUSTOM", setter_email |-> "bob"]}

\* entries whose timestamps take every form parse_timestamp tells apart
FormTimestamps ==
  {TsZ(48 * SecondsPerHour), TsOffset(53 * SecondsPerHour, 5 * SecondsPerHour),
   TsNaive(49 * SecondsPerHour), TsDate(25 * SecondsPerHour), TsBad}

FormEntryDomain ==
  {RawMessage(s, ts, IF s = "CREATOR" THEN "alice" ELSE None, <<>>) :
     s \in {"LEAD", "CREATOR"}, ts \in FormTimestamps}
  \cup {RawMalformed("LEAD"),
        RawMessage("LEAD", TsZ(48 * SecondsPerHour), None, <<"image", "sticker">>)}

FormConversationKinds == {[current_stage |-> "BOOKED", setter_email |-> "alice"]}

TimeZones == {"UTC", "Etc/GMT+5"}
Todays == {5}
DateRanges == {<<0, 0>>, <<1, 4>>}
Configs ==
  LET \* has_range: start_date and end_date are both given (not None)
      ConfigRanges == {<<0, 2>>}
  IN
  {[timezone |-> tz, has_range |-> TRUE, start_date |-> r[1], end_date |-> r[2]] :
     tz \in TimeZones, r \in ConfigRanges}
  \cup {[timezone |-> tz, has_range |-> FALSE, start_date |-> 0, end_date |-> 0] :
          tz \in TimeZones}

TotalEntries(convs) ==
  LET RECURSIVE Sum(_)
      Sum(k) == IF k = 0 THEN 0 ELSE Len(convs[k].messages) + Sum(k - 1)
  IN Sum(Len(convs))

(***************************************************************************)
(* The state machine: the caller assembles a conversation list, then calls *)
(* one of the analysis functions on it.  `locals` holds the local          *)
(* variables of a running classify_with_adaptive_retry, `calls` the        *)
(* requests the classification service has received from it.               *)
(***************************************************************************)
Init ==
  /\ conversations = <<>>
  /\ pc = "input"
  /\ call = [fn |-> "none"]
  /\ ret = [raised |-> "none"]
  /\ locals = retry_locals(<<>>, <<>>)
  /\ calls = <<>>

NewConversation(kind) ==
  /\ pc = "input"
  /\ Len(conversations) < MaxConversations
  /\ conversations' = Append(conversations,
       [conversation_id |-> Len(conversations) + 1,
        current_stage |-> kind.current_stage,
        setter_email |-> kind.setter_email,
        messages |-> <<>>])
  /\ UNCHANGED <<pc, call, ret, locals, calls>>

AddEntry(e) ==
  /\ pc = "input"
  /\ Len(conversations) > 0
  /\ TotalEntries(conversations) < MaxEntries
  /\ conversations' = [conversations EXCEPT ![Len(conversations)].messages = Append(@, e)]
  /\ UNCHANGED <<pc, call, ret, locals, calls>>

CalculateCoreMetrics ==
  /\ pc = "input"
  /\ pc' = "returned"
  /\ call' = [fn |-> "calculate_core_metrics"]
  /\ ret' = calculate_core_metrics(conversations)
  /\ UNCHANGED <<conversations, locals, calls>>

AnalyzeSettersBySender ==
  /\ pc = "input"
  /\ pc' = "returned"
  /\ call' = [fn |-> "analyze_setters_by_sender"]
  /\ ret' = analyze_setters_by_sender(conversations)
  /\ UNCHANGED <<conversations, locals, calls>>

AnalyzeSettersByAssignment ==
  /\ pc = "input"
  /\ pc' = "returned"
  /\ call' = [fn |-> "analyze_setters_by_assignment"]
  /\ ret' = analyze_setters_by_assignment(conversations)
  /\ UNCHANGED <<conversations, locals, calls>>

AnalyzeTimeSeries(start_date, end_date, tz) ==
  /\ pc = "input"
  /\ pc' = "returned"
  /\ call' = [fn |-> "analyze_time_series", start_date |-> start_date,
              end_date |-> end_date, timezone |-> tz]
  /\ ret' = analyze_time_series(conversations, start_date, end_date, tz)
  /\ UNCHANGED <<conversations, locals, calls>>

AnalyzeConversations(config, today) ==
  /\ pc = "input"
  /\ pc' = "returned"
  /\ call' = [fn |-> "analyze_conversations", config |-> config, today |-> today]
  /\ ret' = analyze_conversations(conversations, config, today)
  /\ UNCHANGED <<conversations, locals, calls>>

\* date.today() is the caller's clock reading
DetectDateRange(today) ==
  /\ pc = "input"
  /\ pc' = "returned"
  /\ call' = [fn |-> "detect_date_range", today |-> today]
  /\ ret' = LET range == detect_date_range(conversations, today)
            IN [raised |-> "none", start_date |-> range[1], end_date |-> range[2]]
  /\ UNCHANGED <<conversations, locals, calls>>

Analyze ==
  \/ CalculateCoreMetrics
  \/ AnalyzeSettersBySender
  \/ AnalyzeSettersByAssignment
  \/ \E r \in DateRanges, tz \in TimeZones : AnalyzeTimeSeries(r[1], r[2], tz)
  \/ \E config \in Configs, today \in Todays : AnalyzeConversations(config, today)
  \/ \E today \in Todays : DetectDateRange(today)

Next ==
  \/ \E kind \in ConversationKinds : NewConversation(kind)
  \/ \E e \in EntryDomain : AddEntry(e)
  \/ Analyze

Spec == Init /\ [][Next]_vars

NextForms ==
  \/ \E kind \in FormConversationKinds : NewConversation(kind)
  \/ \E e \in FormEntryDomain : AddEntry(e)
  \/ Analyze

SpecForms == Init /\ [][NextForms]_vars

(***************************************************************************)
(* Script clustering, script search and conversation ownership: the caller *)
(* assembles conversations whose messages carry texts, an export may       *)
(* repeat a conversation id, and the caller calls find_similar_messages,   *)
(* cluster_messages on the extracted CREATOR messages, or                  *)
(* analyze_setters_by_assignment.                                          *)
(***************************************************************************)
TextAB == <<"a", " ", "b">>
TextC == <<"c">>
TextAC == <<"a", " ", "c">>

RawText(sender, ts, sent_by, content) ==
  [RawMessage(sender, ts, sent_by, <<>>) EXCEPT !.content = content]

SearchEntryDomain ==
  LET TextPadded == <<" ", "A", " ", "c">>
  IN
  {RawText("CREATOR", TsZ(48 * SecondsPerHour), "alice", TextAB),
   RawText("CREATOR", TsZ(48 * SecondsPerHour), None, TextC),
   RawText("CREATOR", TsZ(51 * SecondsPerHour + 1), "alice", TextAC),
   RawText("CREATOR", TsZ(48 * SecondsPerHour), "bob", TextPadded),
   RawText("CREATOR", TsBad, None, TextAC),
   RawText("LEAD", TsZ(96 * SecondsPerHour), None, TextC),
   RawText("LEAD", TsZ(99 * SecondsPerHour + 1), None, TextAB)}

SearchConversationKinds ==
  {[current_stage |-> "QUALIFIED", setter_email |-> "alice"],
   [current_stage |-> "WON", setter_email |-> None]}

NoDateFilter == [has_from |-> FALSE, date_from |-> 0, has_to |-> FALSE, date_to |-> 0]

SearchArgs(tz, filter, threshold, sender_filter, match_type) ==
  LET SearchQuery == <<"A", " ", "c", " ">>
  IN
  [query_message |-> SearchQuery, timezone |-> tz, filter |-> filter,
   similarity_threshold |-> threshold, sender_filter |-> sender_filter,
   match_type |-> match_type]

SearchCalls ==
  LET OnDay(d) == [has_from |-> TRUE, date_from |-> d, has_to |-> TRUE, date_to |-> d]
  IN
  {SearchArgs("UTC", NoDateFilter, 85, "CREATOR", "token_set"),
   SearchArgs("UTC", NoDateFilter, 60, "CREATOR", "token_set"),
   SearchArgs("UTC", NoDateFilter, 60, "CREATOR", "ratio"),
   SearchArgs("UTC", NoDateFilter, 85, "CREATOR", "partial"),
   SearchArgs("UTC", NoDateFilter, 85, "LEAD", "token_set"),
   SearchArgs("Etc/GMT+5", OnDay(2), 60, "CREATOR", "token_set")}

ClusterThresholds == {85, 60}

\* conversation ids are numbered in the order of their first appearance
ImportConversation(id, kind) ==
  /\ pc = "input"
  /\ Len(conversations) < MaxConversations
  /\ id \in 1..(Len(conversations) + 1)
  /\ conversations' = Append(conversations,
       [conversation_id |-> id,
        current_stage |-> kind.current_stage,
        setter_email |-> kind.setter_email,
        messages |-> <<>>])
  /\ UNCHANGED <<pc, call, ret, locals, calls>>

FindSimilarMessages(call_args) ==
  /\ pc = "input"
  /\ pc' = "returned"
  /\ call' = [fn |-> "find_similar_messages", args |-> call_args]
  /\ ret' = find_similar_messages(conversations, call_args)
  /\ UNCHANGED <<conversations, locals, calls>>

ClusterMessages(threshold) ==
  /\ pc = "input"
  /\ pc' = "returned"
  /\ call' = [fn |-> "cluster_messages", threshold |-> threshold]
  /\ ret' = cluster_messages(extract_creator_messages(conversations), threshold)
  /\ UNCHANGED <<conversations, locals, calls>>

NextScripts ==
  \/ \E id \in 1..MaxConversations, kind \in SearchConversationKinds :
       ImportConversation(id, kind)
  \/ \E e \in SearchEntryDomain : AddEntry(e)
  \/ \E call_args \in SearchCalls : FindSimilarMessages(call_args)
  \/ \E threshold \in ClusterThresholds : ClusterMessages(threshold)
  \/ AnalyzeSettersByAssignment

SpecScripts == Init /\ [][NextScripts]_vars

(***************************************************************************)
(* Objection classification: classify_with_adaptive_retry runs its while   *)
(* loop one iteration at a time; the classification service answers each   *)
(* batch in any of its ways, at most MaxFaults times other than exactly.   *)
(***************************************************************************)
MaxFaults == 4
MaxShortList == 3
MaxStalls == 2

ClassifyInputs ==
  {[n |-> 50, batch_sizes |-> DEFAULT_BATCH_SIZES]}
  \cup {[n |-> k, batch_sizes |-> <<2, 1>>] : k \in 0..MaxShortList}
  \cup {[n |-> 2, batch_sizes |-> <<>>], [n |-> 1, batch_sizes |-> <<0>>]}

Outcomes == {"raise", "exact", "short", "long", "no_category"}

Faults == Cardinality({i \in DOMAIN calls : calls[i].outcome # "exact"})

\* the well-answered calls so far whose batch was empty
Stalls ==
  Cardinality({i \in DOMAIN calls : calls[i].outcome = "exact" /\ calls[i].count = 0})

\* a first call, or one more call after a first call has returned;
\* call.earlier tells whether an earlier call was made and the tier list it
\* ended with
CallClassifyWithAdaptiveRetry(input) ==
  LET messages == [m \in 1..input.n |-> m]
  IN /\ \/ pc = "input"
        \/ pc = "returned" /\ call.fn = "classify_with_adaptive_retry"
                           /\ ~call.earlier.made
     /\ pc' = "classify_loop"
     /\ call' = [fn |-> "classify_with_adaptive_retry", messages |-> messages,
                 batch_sizes |-> input.batch_sizes,
                 earlier |-> IF pc = "input"
                             THEN [made |-> FALSE, batch_sizes |-> <<>>]
                             ELSE [made |-> TRUE, batch_sizes |-> locals.batch_sizes]]
     /\ locals' = retry_locals(messages, input.batch_sizes)
     /\ calls' = <<>>
     /\ ret' = [raised |-> "none"]
     /\ UNCHANGED conversations

\* one iteration of the loop, lines 89-112
ClassifyBatch(outcome) ==
  LET batch_size == current_batch_size(locals.batch_sizes)
  IN /\ pc = "classify_loop"
     /\ locals.remaining_messages # <<>>
     /\ outcome # "exact" => Faults < MaxFaults
     /\ (outcome = "exact" /\ batch_size <= 0) => Stalls < MaxStalls
     /\ locals' = retry_iteration(locals, outcome)
     /\ calls' = Append(calls,
          [batch_size |-> batch_size,
           count |-> Len(take(locals.remaining_messages, batch_size)),
           outcome |-> outcome])
     /\ UNCHANGED <<conversations, pc, call, ret>>

\* line 114
ClassifyReturn ==
  /\ pc = "classify_loop"
  /\ locals.remaining_messages = <<>>
  /\ pc' = "returned"
  /\ ret' = [raised |-> "none", results |-> locals.all_results]
  /\ UNCHANGED <<conversations, call, locals, calls>>

NextRetry ==
  \/ \E input \in ClassifyInputs : CallClassifyWithAdaptiveRetry(input)
  \/ \E outcome \in Outcomes : ClassifyBatch(outcome)
  \/ ClassifyReturn

SpecRetry == Init /\ [][NextRetry]_vars

(***************************************************************************)
(* categorize_and_generate_topics as a process: one step per iteration of  *)
(* the loop over the initial batches and of the loop over the retry queue. *)
(* calls logs the submissions to the categorisation service.  A list of    *)
(* more than 20 clusters makes a second initial batch.                     *)
(***************************************************************************)
CategorizeInputs == {0, 1, 2, 21}

CategorizeOutcomes == {"raise", "exact", "missing", "malformed"}

CallCategorizeAndGenerateTopics(n) ==
  /\ pc = "input"
  /\ pc' = "categorize_loops"
  /\ call' = [fn |-> "categorize_and_generate_topics", clusters |-> n]
  /\ locals' = categorize_locals(n)
  /\ calls' = <<>>
  /\ UNCHANGED <<conversations, ret>>

InitialBatch(outcome) ==
  /\ pc = "categorize_loops"
  /\ locals.batch_idx < number_of_batches(Len(locals.clusters))
  /\ outcome # "exact" => Faults < MaxFaults
  /\ locals' = initial_batch_step(locals, outcome)
  /\ calls' = Append(calls,
       [phase |-> "initial",
        batch |-> initial_batch(Len(locals.clusters), locals.batch_idx),
        outcome |-> outcome])
  /\ UNCHANGED <<conversations, pc, call, ret>>

RetryCluster(outcome) ==
  /\ pc = "categorize_loops"
  /\ locals.batch_idx = number_of_batches(Len(locals.clusters))
  /\ locals.retry_idx < Len(locals.retry_queue)
  /\ outcome # "exact" => Faults < MaxFaults
  /\ locals' = retry_step(locals, outcome)
  /\ calls' = Append(calls,
       [phase |-> "retry",
        batch |-> <<locals.retry_queue[locals.retry_idx + 1]>>,
        outcome |-> outcome])
  /\ UNCHANGED <<conversations, pc, call, ret>>

\* line 256
CategorizeReturn ==
  /\ pc = "categorize_loops"
  /\ locals.batch_idx = number_of_batches(Len(locals.clusters))
  /\ locals.retry_idx = Len(locals.retry_queue)
  /\ pc' = "returned"
  /\ ret' = [raised |-> "none", clusters |-> locals.clusters]
  /\ UNCHANGED <<conversations, call, locals, calls>>

NextCategorize ==
  \/ \E n \in CategorizeInputs : CallCategorizeAndGenerateTopics(n)
  \/ \E outcome \in CategorizeOutcomes : InitialBatch(outcome)
  \/ \E outcome \in CategorizeOutcomes : RetryCluster(outcome)
  \/ CategorizeReturn

SpecCategorize == Init /\ [][NextCategorize]_vars

(***************************************************************************)
(* Vocabulary of the properties.                                           *)
(***************************************************************************)
Returned(fn) == pc = "returned" /\ call.fn = fn
ReturnedOk(fn) == Returned(fn) /\ ret.raised = "none"

ActualMessages(k) == get_actual_messages(conversations[k])

\* <<k, i>>: position i of the actual-message sequence of conversation k
Positions ==
  UNION {{<<k, i>> : i \in DOMAIN ActualMessages(k)} : k \in DOMAIN conversations}

CreatorPositions == {p \in Positions : ActualMessages(p[1])[p[2]].sender = "CREATOR"}

\* the absolute instant a timestamp text denotes, read as UTC when it
\* carries no offset
InstantOf(ts) ==
  IF ts.form \in {"date", "datejunk"} THEN Midnight(ts.wall) ELSE ts.wall - ts.off

IsFirstLeadAfter(messages, i, j) ==
  /\ j > i
  /\ messages[j].sender = "LEAD"
  /\ \A m \in (i + 1)..(j - 1) : messages[m].sender # "LEAD"

ElapsedSeconds(messages, i, j) ==
  InstantOf(messages[j].timestamp) - InstantOf(messages[i].timestamp)

\* the reply rule of the specification: the first later LEAD message exists
\* and is at most 48 hours (172800 s) later
RepliedWithin48h(messages, i) ==
  \E j \in DOMAIN messages :
    IsFirstLeadAfter(messages, i, j) /\ ElapsedSeconds(messages, i, j) <= 172800

RepliedPositions ==
  {p \in CreatorPositions : RepliedWithin48h(ActualMessages(p[1]), p[2])}

\* a CREATOR message whose first later LEAD message is too late, with a
\* further LEAD message inside the window
LateFirstLeadThenTimely(messages, i) ==
  \E j, j2 \in DOMAIN messages :
    /\ IsFirstLeadAfter(messages, i, j)
    /\ ElapsedSeconds(messages, i, j) > 172800
    /\ j2 > j
    /\ messages[j2].sender = "LEAD"
    /\ ElapsedSeconds(messages, i, j2) <= 172800

\* the delays the three passes record (their local reply_delays lists)
CoreReplyDelays == core_conversations(conversations, 1, CoreInit).reply_delays
SenderData == sender_conversations(conversations, 1, SetterInit).setter_data
AssignmentData == assignment_conversations(conversations, 1, SetterInit).setter_data

\* twice the standard median of a non-empty sample, by rank
RankBelow(ds, v) == Cardinality({i \in DOMAIN ds : ds[i] < v})
RankUpTo(ds, v) == Cardinality({i \in DOMAIN ds : ds[i] <= v})
KthSmallest(ds, k) ==
  CHOOSE v \in Range(ds) : RankBelow(ds, v) < k /\ k <= RankUpTo(ds, v)
TwiceMedian(ds) ==
  LET n == Len(ds)
  IN IF n % 2 = 1 THEN 2 * KthSmallest(ds, (n + 1) \div 2)
     ELSE KthSmallest(ds, n \div 2) + KthSmallest(ds, (n \div 2) + 1)

IsExactMedian(m, ds) ==
  IF Len(ds) = 0 THEN m = 0 ELSE 2 * m = TwiceMedian(ds)

\* m is the median with its fractional half dropped (rounded toward zero)
IsTruncatedMedian(m, ds) ==
  IF Len(ds) = 0 THEN m = 0
  ELSE LET t == TwiceMedian(ds)
       IN \/ 2 * m = t
          \/ t > 0 /\ 2 * m + 1 = t
          \/ t < 0 /\ 2 * m - 1 = t

(***************************************************************************)
(* C1  calculate_core_metrics counts a CREATOR message as replied exactly  *)
(* when a LEAD message follows it in list order and the first such LEAD    *)
(* message is at most 48 hours later; a late first LEAD message is final   *)
(* (a later timely one does not count), and a delay is recorded only for   *)
(* the messages counted as replied.                                        *)
(***************************************************************************)
C1_ReplyRule ==
  ReturnedOk("calculate_core_metrics") =>
    /\ ret.creator_messages_with_reply_within_48h = Cardinality(RepliedPositions)
    /\ \A p \in CreatorPositions :
         check_reply(ActualMessages(p[1]), p[2]).reply_found
           <=> RepliedWithin48h(ActualMessages(p[1]), p[2])
    /\ Len(CoreReplyDelays) = Cardinality(RepliedPositions)

C1_Witness ==
  /\ ReturnedOk("calculate_core_metrics")
  /\ ret.creator_messages_with_reply_within_48h = 0
  /\ \E p \in CreatorPositions : LateFirstLeadThenTimely(ActualMessages(p[1]), p[2])

(***************************************************************************)
(* C2  The core reply rate is 0 exactly when the input holds no CREATOR    *)
(* message (as claimed).                                                   *)
(***************************************************************************)
C2_ZeroExactlyWhenNoCreator ==
  ReturnedOk("calculate_core_metrics") =>
    (ret.creator_message_reply_rate_within_48h = 0 <=> ret.total_messages_sent = 0)

(***************************************************************************)
(* C2 (amended)  The core reply rate is 0 when the input holds no CREATOR  *)
(* message, and more generally whenever no CREATOR message is counted as   *)
(* replied; it is above 0 when at least one is counted as replied (and the *)
(* replied share is above 0.005 percent, which rounds to 0.01).            *)
(***************************************************************************)
C2_ZeroWhenNoneReplied ==
  ReturnedOk("calculate_core_metrics") =>
    /\ ret.total_messages_sent = 0 => ret.creator_message_reply_rate_within_48h = 0
    /\ ret.creator_messages_with_reply_within_48h = 0
         => ret.creator_message_reply_rate_within_48h = 0
    /\ (/\ ret.creator_messages_with_reply_within_48h > 0
        /\ 20000 * ret.creator_messages_with_reply_within_48h > ret.total_messages_sent)
         => ret.creator_message_reply_rate_within_48h > 0

C2_Witness ==
  /\ ReturnedOk("calculate_core_metrics")
  /\ ret.total_messages_sent > 0
  /\ ret.creator_messages_with_reply_within_48h = 0
  /\ ret.creator_message_reply_rate_within_48h = 0

(***************************************************************************)
(* C3  The reply rate of the core summary and of every setter of both      *)
(* setter passes lies in [0, 100]: the CREATOR messages counted as replied *)
(* never outnumber the CREATOR messages counted.                           *)
(***************************************************************************)
RateInRange(m, sent) ==
  /\ m.creator_message_reply_rate_within_48h \in 0..10000
  /\ m.creator_messages_with_reply_within_48h <= sent

C3_RateInRange ==
  /\ ReturnedOk("calculate_core_metrics") => RateInRange(ret, ret.total_messages_sent)
  /\ (ReturnedOk("analyze_setters_by_sender") \/ ReturnedOk("analyze_setters_by_assignment"))
       => \A s \in DOMAIN ret.setters :
            RateInRange(ret.setters[s], ret.setters[s].total_messages_sent_from_mochi)

C3_Witness ==
  /\ ReturnedOk("analyze_setters_by_sender")
  /\ \E s \in DOMAIN ret.setters :
       /\ ret.setters[s].total_messages_sent_from_mochi = 2
       /\ ret.setters[s].total_conversations = 1
       /\ ret.setters[s].creator_message_reply_rate_within_48h = 10000

(***************************************************************************)
(* C4  median_reply_delay_seconds is the standard median of the recorded   *)
(* delays, the exact average of the two middle values for an even count    *)
(* (as claimed).                                                           *)
(***************************************************************************)
C4_ExactMedian ==
  ReturnedOk("calculate_core_metrics") =>
    IsExactMedian(ret.median_reply_delay_seconds, CoreReplyDelays)

(***************************************************************************)
(* C4 (amended)  median_reply_delay_seconds is the standard median of the  *)
(* recorded delays converted to an integer by dropping the fraction: 0 for *)
(* no delay, the middle value for an odd count, and for an even count the  *)
(* average of the two middle values rounded toward zero.  The same holds   *)
(* for every setter of both setter passes.                                 *)
(***************************************************************************)
C4_TruncatedMedian ==
  /\ ReturnedOk("calculate_core_metrics") =>
       IsTruncatedMedian(ret.median_reply_delay_seconds, CoreReplyDelays)
  /\ ReturnedOk("analyze_setters_by_sender") =>
       \A s \in DOMAIN ret.setters :
         IsTruncatedMedian(ret.setters[s].median_reply_delay_seconds,
                           SenderData[s].reply_delays)
  /\ ReturnedOk("analyze_setters_by_assignment") =>
       \A s \in DOMAIN ret.setters :
         IsTruncatedMedian(ret.setters[s].median_reply_delay_seconds,
                           AssignmentData[s].reply_delays)

C4_Witness ==
  /\ ReturnedOk("calculate_core_metrics")
  /\ Len(CoreReplyDelays) = 2
  /\ (CoreReplyDelays[1] + CoreReplyDelays[2]) % 2 = 1
  /\ CoreReplyDelays[1] > 0
  /\ CoreReplyDelays[2] > 0

(***************************************************************************)
(* Vocabulary of the error-handling and time-series properties.            *)
(***************************************************************************)
AnalysisFunctions ==
  {"calculate_core_metrics", "analyze_setters_by_sender",
   "analyze_setters_by_assignment", "analyze_time_series"}

HasNoValidMessage(conv) == get_actual_messages(conv) = <<>>

WithoutConversations(convs, Drop(_)) == SelectSeq(convs, LAMBDA c : ~Drop(c))

Parses(ts) == ts.form \in {"Z", "offset", "naive", "date", "datejunk"}

EntryTimestamps ==
  UNION {{conversations[k].messages[i].created_at :
            i \in DOMAIN conversations[k].messages} : k \in DOMAIN conversations}

ZeroFilled(hist) == hist = [b \in Range(TIME_BINS) |-> 0]
HasTheEightBins(hist) == DOMAIN hist = Range(TIME_BINS)

TimeSeriesHistograms(ts) ==
  {ts.lead_activity_by_time, ts.setter_activity_by_time, ts.delayed_responses_by_time}

SetterHistograms(setters) ==
  UNION {{setters[s].lead_activity_by_time, setters[s].setter_activity_by_time,
          setters[s].delayed_responses_by_time} : s \in DOMAIN setters}

\* the calendar day, in time zone tz, of a conversation's creation instant
LocalCreationDay(conv, tz) ==
  (InstantOf(created_at(conv)) + TimeZoneOffset(tz)) \div 86400

CreatedOn(day, st, tz) ==
  {k \in DOMAIN conversations :
     LocalCreationDay(conversations[k], tz) = day /\ stage(conversations[k]) = st}

(***************************************************************************)
(* C5  A conversation without valid messages does not make                 *)
(* analyze_conversations raise (explicit or auto-detected range): the run  *)
(* completes, the conversation counts in total_conversations and in        *)
(* stage_changes for its stage, and the message-level metrics are those of *)
(* the other conversations.                                                *)
(***************************************************************************)
C5_EmptyConversationTolerated ==
  (/\ Returned("analyze_conversations")
   /\ \E k \in DOMAIN conversations : HasNoValidMessage(conversations[k]))
  => /\ ret.raised = "none"
     /\ ret.summary.total_conversations = Len(conversations)
     /\ \A k \in DOMAIN conversations :
          DictGet(ret.summary.stage_changes, stage(conversations[k]), 0) >= 1
     /\ LET others == calculate_core_metrics(
                        WithoutConversations(conversations, HasNoValidMessage))
        IN /\ ret.summary.total_messages_received = others.total_messages_received
           /\ ret.summary.total_messages_sent = others.total_messages_sent
           /\ ret.summary.creator_messages_with_reply_within_48h
                = others.creator_messages_with_reply_within_48h

(***************************************************************************)
(* C6  A message whose timestamp cannot be parsed never aborts             *)
(* calculate_core_metrics, the two setter passes or analyze_time_series:   *)
(* each of them returns a result.  (Stated for lists whose other           *)
(* timestamps are zone-aware and whose conversations each start with a     *)
(* parseable message, so that nothing but the unparseable timestamp can    *)
(* make a pass fail.)                                                      *)
(***************************************************************************)
C6_UnparseableTimestampSkipped ==
  (/\ pc = "returned"
   /\ call.fn \in AnalysisFunctions
   /\ \E ts \in EntryTimestamps : ~Parses(ts)
   /\ \A ts \in EntryTimestamps : ts.form \in {"Z", "offset", "bad"}
   /\ \A k \in DOMAIN conversations :
        /\ Len(conversations[k].messages) > 0
        /\ MessageValidates(conversations[k].messages[1])
        /\ Parses(conversations[k].messages[1].created_at))
  => ret.raised = "none"

(***************************************************************************)
(* C7  For an empty conversation list the analysis does not raise and      *)
(* returns the zero result: no conversations, no messages, reply rate 0,   *)
(* median 0, both setter maps empty, every time-bin histogram zero in all  *)
(* 8 bins, and a day series (the configured range, or today alone when the *)
(* range is auto-detected) whose entries are all zero-filled.              *)
(***************************************************************************)
ZeroSummary(m) ==
  /\ m.raised = "none"
  /\ m.total_conversations = 0
  /\ m.total_messages_received = 0
  /\ m.total_messages_sent = 0
  /\ m.creator_message_reply_rate_within_48h = 0
  /\ m.median_reply_delay_seconds = 0

C7_EmptyListZeroResult ==
  conversations = <<>> =>
    /\ Returned("calculate_core_metrics") => ZeroSummary(ret)
    /\ Returned("analyze_conversations") =>
         /\ ret.raised = "none"
         /\ ZeroSummary(ret.summary)
         /\ DOMAIN ret.setters_by_sent_by = {}
         /\ DOMAIN ret.setters_by_assignment = {}
         /\ \A h \in TimeSeriesHistograms(ret.time_series) : ZeroFilled(h)
         /\ LET days == ret.time_series.stage_changes_by_day
            IN /\ Len(days) >= 1
               /\ ~call.config.has_range
                    => Len(days) = 1 /\ days[1].date_iso = call.today
               /\ call.config.has_range
                    => Len(days) = call.config.end_date - call.config.start_date + 1
               /\ \A d \in DOMAIN days :
                    days[d].stages = [st \in Range(STAGE_TYPES) |-> 0]

C7_Witness ==
  /\ conversations = <<>>
  /\ ReturnedOk("analyze_conversations")
  /\ ~call.config.has_range
  /\ Len(ret.time_series.stage_changes_by_day) = 1

(***************************************************************************)
(* C8  The elapsed time between two parsed timestamps of any accepted      *)
(* forms (trailing Z, explicit offset, no offset read as UTC, date only    *)
(* read as midnight UTC) is defined and is their difference in UTC: on a   *)
(* list whose timestamps all have accepted forms calculate_core_metrics    *)
(* does not raise and counts the replies by the UTC instants.              *)
(***************************************************************************)
C8_AcceptedFormsComparable ==
  (/\ Returned("calculate_core_metrics")
   /\ \A ts \in EntryTimestamps : ts.form \in {"Z", "offset", "naive", "date"})
  => /\ ret.raised = "none"
     /\ ret.creator_messages_with_reply_within_48h = Cardinality(RepliedPositions)

(***************************************************************************)
(* C9  For a range with start <= end analyze_time_series returns exactly   *)
(* (end - start) + 1 day entries, one per consecutive day in ascending     *)
(* order; every entry's stage map has exactly the 9 known stages, and each *)
(* value is the number of conversations of that stage created on that day  *)
(* (in the given time zone), hence 0 where there are none.                 *)
(***************************************************************************)
C9_DaySeriesZeroFilled ==
  (ReturnedOk("analyze_time_series") /\ call.start_date <= call.end_date) =>
    LET days == ret.stage_changes_by_day
    IN /\ Len(days) = (call.end_date - call.start_date) + 1
       /\ \A d \in DOMAIN days :
            /\ days[d].date_iso = call.start_date + (d - 1)
            /\ DOMAIN days[d].stages = Range(STAGE_TYPES)
            /\ Cardinality(DOMAIN days[d].stages) = 9
            /\ \A st \in Range(STAGE_TYPES) :
                 days[d].stages[st]
                   = Cardinality(CreatedOn(days[d].date_iso, st, call.timezone))

C9_Witness ==
  /\ ReturnedOk("analyze_time_series")
  /\ Len(ret.stage_changes_by_day) = 4
  /\ \E st \in Range(STAGE_TYPES) : ret.stage_changes_by_day[2].stages[st] = 1
  /\ \A st \in Range(STAGE_TYPES) : ret.stage_changes_by_day[3].stages[st] = 0
  /\ Len(conversations) = 2

(***************************************************************************)
(* C10  Every time-bin histogram of a TimeSeries and of every              *)
(* SetterMetrics has exactly the 8 keys 00_03 ... 21_24, whatever the      *)
(* input, and get_time_bin maps each hour 0..23 to the label of the 3-hour *)
(* bucket that contains it.                                                *)
(***************************************************************************)
C10_EightTimeBins ==
  /\ \A h \in 0..23 : get_time_bin(h) = TIME_BINS[(h \div HoursPerBin) + 1]
  /\ Cardinality(Range(TIME_BINS)) = 8
  /\ ReturnedOk("analyze_time_series") =>
       \A h \in TimeSeriesHistograms(ret) : HasTheEightBins(h)
  /\ (ReturnedOk("analyze_setters_by_sender") \/ ReturnedOk("analyze_setters_by_assignment"))
       => \A h \in SetterHistograms(ret.setters) : HasTheEightBins(h)
  /\ ReturnedOk("analyze_conversations") =>
       /\ \A h \in TimeSeriesHistograms(ret.time_series) : HasTheEightBins(h)
       /\ \A h \in SetterHistograms(ret.setters_by_sent_by) : HasTheEightBins(h)
       /\ \A h \in SetterHistograms(ret.setters_by_assignment) : HasTheEightBins(h)

C10_Witness ==
  /\ ReturnedOk("analyze_time_series")
  /\ call.timezone = "Etc/GMT+5"
  /\ ret.setter_activity_by_time["18_21"] = 1
  /\ ret.setter_activity_by_time["21_24"] = 1
  /\ ret.lead_activity_by_time["21_24"] = 1

(***************************************************************************)
(* Vocabulary of the delayed-response property.                            *)
(***************************************************************************)
\* the label of the 3-hour bucket that contains hour h
BinOfHour(h) == TIME_BINS[(h \div 3) + 1]

\* the hour of day, in time zone tz, of the instant a timestamp denotes
LocalHour(ts, tz) == ((InstantOf(ts) + TimeZoneOffset(tz)) % 86400) \div 3600

\* position i follows a LEAD message by strictly more than 24 hours
DelayedAfterLead(messages, i) ==
  /\ i > 1
  /\ messages[i - 1].sender = "LEAD"
  /\ ElapsedSeconds(messages, i - 1, i) > 86400

DelayedIn(b, tz) ==
  {p \in CreatorPositions :
     /\ DelayedAfterLead(ActualMessages(p[1]), p[2])
     /\ BinOfHour(LocalHour(ActualMessages(p[1])[p[2]].timestamp, tz)) = b}

(***************************************************************************)
(* C11  analyze_time_series counts a CREATOR message in                    *)
(* delayed_responses_by_time, in the time bin of the CREATOR message's own *)
(* local hour, exactly when the immediately preceding actual message of    *)
(* the conversation is a LEAD message strictly more than 24 hours earlier; *)
(* no earlier message is consulted.                                        *)
(***************************************************************************)
C11_DelayedResponseRule ==
  ReturnedOk("analyze_time_series") =>
    \A b \in Range(TIME_BINS) :
      ret.delayed_responses_by_time[b] = Cardinality(DelayedIn(b, call.timezone))

\* a delayed response counted in the bin of the CREATOR message, which is
\* not the bin of the LEAD message before it
C11_Witness ==
  /\ ReturnedOk("analyze_time_series")
  /\ call.timezone = "Etc/GMT+5"
  /\ \E p \in CreatorPositions :
       LET messages == ActualMessages(p[1])
           own == BinOfHour(LocalHour(messages[p[2]].timestamp, call.timezone))
       IN /\ DelayedAfterLead(messages, p[2])
          /\ BinOfHour(LocalHour(messages[p[2] - 1].timestamp, call.timezone)) # own
          /\ ret.delayed_responses_by_time[own] = 1
          /\ ret.lead_activity_by_time[own] = 0

(***************************************************************************)
(* Vocabulary of the attribution properties of the sender pass.            *)
(***************************************************************************)
MessageAt(p) == ActualMessages(p[1])[p[2]]

\* the CREATOR messages whose sent_by field is s
SentBy(s) == {p \in CreatorPositions : MessageAt(p).sent_by = s}

Senders == {MessageAt(p).sent_by : p \in CreatorPositions} \ {None}

ConversationsOf(ps) == {conversations[p[1]].conversation_id : p \in ps}

(***************************************************************************)
(* C12  analyze_setters_by_sender reports exactly the identities that sent *)
(* a CREATOR message; for each identity s total_messages_sent_from_mochi   *)
(* is the number of CREATOR messages with sent_by = s and                  *)
(* total_conversations the number of distinct conversations holding such a *)
(* message.  A CREATOR message without sent_by is attributed to nobody.    *)
(***************************************************************************)
C12_AttributionBySender ==
  ReturnedOk("analyze_setters_by_sender") =>
    /\ DOMAIN ret.setters = Senders
    /\ \A s \in Senders :
         /\ ret.setters[s].total_messages_sent_from_mochi = Cardinality(SentBy(s))
         /\ ret.setters[s].total_conversations
              = Cardinality(ConversationsOf(SentBy(s)))

\* one conversation with CREATOR messages of two identities and one without
\* sent_by: it counts for both identities, the third message for nobody
C12_Witness ==
  /\ ReturnedOk("analyze_setters_by_sender")
  /\ \E k \in DOMAIN conversations :
       /\ \A s \in {"alice", "bob", None} : \E p \in SentBy(s) : p[1] = k
       /\ Len(ActualMessages(k)) = 3
  /\ DOMAIN ret.setters = {"alice", "bob"}
  /\ \A s \in {"alice", "bob"} :
       /\ ret.setters[s].total_conversations = 1
       /\ ret.setters[s].total_messages_sent_from_mochi = 1

LeadPositions == {p \in Positions : MessageAt(p).sender = "LEAD"}

\* the LEAD messages, in time bin b, of the conversations in which s sent a
\* CREATOR message
LeadMessagesWith(s, b) ==
  {p \in LeadPositions :
     /\ \E q \in SentBy(s) : q[1] = p[1]
     /\ BinOfHour(LocalHour(MessageAt(p).timestamp, "UTC")) = b}

(***************************************************************************)
(* C13  In analyze_setters_by_sender every LEAD message of a conversation  *)
(* adds 1 to the lead_activity_by_time bin of every identity that sent a   *)
(* CREATOR message anywhere in that conversation, whether before or after  *)
(* the LEAD message.                                                       *)
(***************************************************************************)
C13_LeadCreditsEveryParticipant ==
  ReturnedOk("analyze_setters_by_sender") =>
    \A s \in Senders, b \in Range(TIME_BINS) :
      ret.setters[s].lead_activity_by_time[b] = Cardinality(LeadMessagesWith(s, b))

(***************************************************************************)
(* Vocabulary of the fixed-shape property of the setter passes.            *)
(***************************************************************************)
SetterPasses == {"analyze_setters_by_sender", "analyze_setters_by_assignment"}

\* the conversations attributed to s by the pass that returned
AttributedTo(s) ==
  IF call.fn = "analyze_setters_by_sender"
  THEN {k \in DOMAIN conversations : \E p \in SentBy(s) : p[1] = k}
  ELSE {k \in DOMAIN conversations : conversations[k].setter_email = s}

\* the messages the pass counts for s in a histogram
CountedFor(s, sender) ==
  {p \in Positions :
     /\ MessageAt(p).sender = sender
     /\ IF call.fn = "analyze_setters_by_sender" /\ sender = "CREATOR"
        THEN MessageAt(p).sent_by = s
        ELSE p[1] \in AttributedTo(s)}

BinsOf(ps) == {BinOfHour(LocalHour(MessageAt(p).timestamp, "UTC")) : p \in ps}

(***************************************************************************)
(* C15  Every SetterMetrics of either setter pass has a stage_changes map  *)
(* with all 9 known stages and three time-bin maps with all 8 time bins;   *)
(* a stage or bin the setter never touched is present with value 0.        *)
(***************************************************************************)
C15_SetterMapsFixedShape ==
  (pc = "returned" /\ call.fn \in SetterPasses /\ ret.raised = "none") =>
    \A s \in DOMAIN ret.setters :
      LET m == ret.setters[s]
      IN /\ Range(STAGE_TYPES) \subseteq DOMAIN m.stage_changes
         /\ \A st \in Range(STAGE_TYPES) :
              (\A k \in AttributedTo(s) : stage(conversations[k]) # st)
                => m.stage_changes[st] = 0
         /\ \A hist \in {m.setter_activity_by_time, m.lead_activity_by_time,
                          m.delayed_responses_by_time} :
              DOMAIN hist = Range(TIME_BINS)
         /\ \A b \in Range(TIME_BINS) :
              /\ b \notin BinsOf(CountedFor(s, "CREATOR"))
                   => m.setter_activity_by_time[b] = 0
              /\ b \notin BinsOf(CountedFor(s, "LEAD"))
                   => m.lead_activity_by_time[b] = 0

\* a setter whose only conversation has a stage outside the 9 known ones and
\* holds one CREATOR message: 9 zero stages, 7 zero setter bins, 8 zero lead bins
C15_Witness ==
  /\ pc = "returned" /\ call.fn \in SetterPasses /\ ret.raised = "none"
  /\ \E s \in DOMAIN ret.setters :
       LET m == ret.setters[s]
       IN /\ \A st \in Range(STAGE_TYPES) : m.stage_changes[st] = 0
          /\ DictGet(m.stage_changes, "CUSTOM", 0) = 1
          /\ Cardinality({b \in Range(TIME_BINS) : m.setter_activity_by_time[b] = 0}) = 7
          /\ \A b \in Range(TIME_BINS) : m.lead_activity_by_time[b] = 0

(***************************************************************************)
(* Vocabulary of the ownership property of the assignment pass.            *)
(***************************************************************************)
RECURSIVE TotalConversations(_, _)
TotalConversations(setters, S) ==
  IF S = {} THEN 0
  ELSE LET s == CHOOSE x \in S : TRUE
       IN setters[s].total_conversations + TotalConversations(setters, S \ {s})

DistinctConversations ==
  {conversations[k].conversation_id : k \in DOMAIN conversations}

OwnersOf(id) ==
  {conversations[k].setter_email :
     k \in {j \in DOMAIN conversations : conversations[j].conversation_id = id}}

(***************************************************************************)
(* C14  In analyze_setters_by_assignment the sum of total_conversations    *)
(* over all setters is at least the number of distinct conversations of    *)
(* the input, and equal to it when every conversation has exactly one      *)
(* owner.                                                                  *)
(***************************************************************************)
C14_OwnedConversationsSum ==
  ReturnedOk("analyze_setters_by_assignment") =>
    LET total == TotalConversations(ret.setters, DOMAIN ret.setters)
    IN /\ total >= Cardinality(DistinctConversations)
       /\ (\A id \in DistinctConversations : Cardinality(OwnersOf(id)) = 1)
            => total = Cardinality(DistinctConversations)

\* an export that holds one conversation id twice, under two owners: the sum
\* exceeds the number of distinct conversations
C14_Witness ==
  /\ ReturnedOk("analyze_setters_by_assignment")
  /\ Cardinality(DistinctConversations) = 1
  /\ \E id \in DistinctConversations : Cardinality(OwnersOf(id)) = 2
  /\ TotalConversations(ret.setters, DOMAIN ret.setters) = 2

(***************************************************************************)
(* Vocabulary of the clustering property.  Messages are named by their     *)
(* position in the input list of cluster_messages.                         *)
(***************************************************************************)
ClusterInput == extract_creator_messages(conversations)

ScoreBetween(msgs, i, r) == token_set_ratio(msgs[i].text, msgs[r].text)

\* the first member of the cluster message i ends up in: i itself when no
\* earlier first member scores at least thr against it, else the earliest
\* such first member
RECURSIVE RepresentativeOf(_, _, _)
RepresentativeOf(msgs, thr, i) ==
  LET reps == {r \in 1..(i - 1) : RepresentativeOf(msgs, thr, r) = r}
      fits == {r \in reps : at_least(ScoreBetween(msgs, i, r), thr)}
  IN IF fits = {} THEN i ELSE SetMin(fits)

Representatives(msgs, thr) ==
  {r \in DOMAIN msgs : RepresentativeOf(msgs, thr, r) = r}

\* the c-th smallest element of a set of numbers
NthSmallest(S, c) == CHOOSE x \in S : Cardinality({y \in S : y < x}) = c - 1

\* the elements of a set of positions, ascending, as messages
RECURSIVE InInputOrder(_, _)
InInputOrder(msgs, S) ==
  IF S = {} THEN <<>>
  ELSE <<msgs[SetMin(S)]>> \o InInputOrder(msgs, S \ {SetMin(S)})

(***************************************************************************)
(* C16  cluster_messages is a single-pass greedy first-fit that depends    *)
(* only on the input order and the threshold: there is one cluster per     *)
(* message that no earlier first member matches, in the order of these     *)
(* messages; a cluster's example is the text of its first member and never *)
(* changes; every other message belongs to the first-formed cluster whose  *)
(* example scores at least the threshold against it, members in input      *)
(* order.                                                                  *)
(***************************************************************************)
C16_GreedyFirstFit ==
  ReturnedOk("cluster_messages") =>
    LET msgs == ClusterInput
        thr == call.threshold
        reps == Representatives(msgs, thr)
    IN /\ Len(ret.clusters) = Cardinality(reps)
       /\ \A c \in DOMAIN ret.clusters :
            LET r == NthSmallest(reps, c)
                members == {i \in DOMAIN msgs : RepresentativeOf(msgs, thr, i) = r}
            IN /\ ret.clusters[c].example = msgs[r].text
               /\ ret.clusters[c].messages = InInputOrder(msgs, members)
               /\ ret.clusters[c].count = Cardinality(members)

\* a message that joined the first cluster although the example of the
\* second, formed before the message came, scores higher against it
C16_Witness ==
  /\ ReturnedOk("cluster_messages")
  /\ Len(ret.clusters) = 2
  /\ ret.clusters[1].count = 2
  /\ LET text == ret.clusters[1].messages[2].text
     IN /\ at_least(token_set_ratio(text, ret.clusters[1].example), call.threshold)
        /\ score_less(token_set_ratio(text, ret.clusters[1].example),
                      token_set_ratio(text, ret.clusters[2].example))
        /\ \E i \in DOMAIN ClusterInput :
             /\ ClusterInput[i] = ret.clusters[1].messages[2]
             /\ \E j \in 1..(i - 1) : ClusterInput[j] = ret.clusters[2].messages[1]

(***************************************************************************)
(* Vocabulary of the search property.                                      *)
(***************************************************************************)
\* the score of the message at a position against the query of the call
SearchScore(p, call_args) ==
  match_func(call_args.match_type,
             strip(lower(call_args.query_message)),
             strip(lower(ActualMessages(p[1])[p[2]].content)))

\* the positions a call without a date filter has to return
SearchMatches(call_args) ==
  {p \in Positions :
     /\ ActualMessages(p[1])[p[2]].sender = call_args.sender_filter
     /\ at_least(SearchScore(p, call_args), call_args.similarity_threshold)}

\* positions in the order the conversations and their messages are listed
PositionBefore(p, q) == p[1] < q[1] \/ (p[1] = q[1] /\ p[2] < q[2])

NthPosition(S, n) ==
  CHOOSE p \in S : Cardinality({q \in S : PositionBefore(q, p)}) = n - 1

WellTimed ==
  \A p \in Positions : ActualMessages(p[1])[p[2]].timestamp.form # "bad"

(***************************************************************************)
(* C17  find_similar_messages returns every message of the filtered sender *)
(* role that scores at least the threshold against the query, and counts a *)
(* matched message as replied exactly when the reply rule of the core      *)
(* metrics does: its first later LEAD message exists and comes within 48   *)
(* hours.  Stated for calls without a date filter on conversations whose   *)
(* timestamps all parse.                                                   *)
(***************************************************************************)
C17_SearchRepliesAsCore ==
  (/\ ReturnedOk("find_similar_messages")
   /\ call.args.filter = NoDateFilter
   /\ WellTimed) =>
    LET matches == SearchMatches(call.args)
        replied == {p \in matches : RepliedWithin48h(ActualMessages(p[1]), p[2])}
    IN /\ ret.total_matches = Cardinality(matches)
       /\ Len(ret.all_matches) = Cardinality(matches)
       /\ \A n \in DOMAIN ret.all_matches :
            LET q == NthPosition(matches, n)
            IN /\ ret.all_matches[n].conversation_id = conversations[q[1]].conversation_id
               /\ ret.all_matches[n].similarity = SearchScore(q, call.args)
               /\ ret.all_matches[n].has_reply = (q \in replied)
       /\ ret.total_replies = Cardinality(replied)

(***************************************************************************)
(* Vocabulary of the adaptive-retry properties.  calls is the log of the   *)
(* classification calls of the run, one entry per loop iteration.          *)
(***************************************************************************)
CeilDiv(a, b) == (a + b - 1) \div b

\* the run of the default tiers on 50 messages in which the call fails at
\* batch size 50, fails at batch size 25 and answers well ever after
FailsAt50And25Only ==
  /\ Len(call.messages) = 50
  /\ call.batch_sizes = DEFAULT_BATCH_SIZES
  /\ Len(calls) >= 2
  /\ calls[1].outcome = "raise"
  /\ calls[2].outcome = "raise"
  /\ \A i \in 3..Len(calls) : calls[i].outcome = "exact"

(***************************************************************************)
(* C18  With tiers 50, 25, 8, 1 and 50 messages, when the call fails at    *)
(* batch size 50 and at batch size 25 and succeeds at batch size 8, the    *)
(* two failures are followed by exactly ceil(50 / 8) = 7 calls, each at    *)
(* tier 8 with at most 8 messages, and the run returns 50 results, the     *)
(* i-th being the category of the i-th message.                            *)
(***************************************************************************)
C18_SevenSubBatchesOfEight ==
  (Returned("classify_with_adaptive_retry") /\ FailsAt50And25Only) =>
    /\ calls[1].batch_size = 50
    /\ calls[2].batch_size = 25
    /\ Len(calls) = 2 + CeilDiv(50, 8)
    /\ \A i \in 3..Len(calls) :
         /\ calls[i].batch_size = 8
         /\ calls[i].count = (IF i < Len(calls) THEN 8 ELSE 50 - 6 * 8)
    /\ ret.raised = "none"
    /\ Len(ret.results) = 50
    /\ \A i \in 1..50 :
         /\ ret.results[i].category = CategoryOf(call.messages[i])
         /\ ret.results[i].category \in Range(OBJECTION_GROUPS)

C18_Witness ==
  /\ Returned("classify_with_adaptive_retry")
  /\ FailsAt50And25Only
  /\ Len(calls) = 9
  /\ Len(ret.results) = 50

\* the loop iteration just taken made a classification call that failed
FailedCallStep ==
  /\ pc = "classify_loop"
  /\ Len(calls') = Len(calls) + 1
  /\ calls'[Len(calls')].outcome = "raise"

(***************************************************************************)
(* C19  classify_with_adaptive_retry never raises, whatever calls fail.  A *)
(* failed call while more than one tier is left moves to the next smaller  *)
(* tier and loses nothing: the results and the messages still to do stay   *)
(* as they are.  A failed call at the last tier appends exactly one        *)
(* "unclassified" result, for the first message still to do, and goes on   *)
(* with the messages after it at the same tier.                            *)
(***************************************************************************)
C19_FailuresNeverAbort ==
  /\ [](Returned("classify_with_adaptive_retry") => ret.raised = "none")
  /\ [][FailedCallStep =>
         /\ pc' = "classify_loop"
         /\ IF Len(locals.batch_sizes) > 1
            THEN /\ locals'.batch_sizes = Tail(locals.batch_sizes)
                 /\ locals'.batch_sizes[1] < locals.batch_sizes[1]
                 /\ locals'.remaining_messages = locals.remaining_messages
                 /\ locals'.all_results = locals.all_results
            ELSE /\ locals'.batch_sizes = locals.batch_sizes
                 /\ locals'.all_results =
                      Append(locals.all_results, [category |-> "unclassified"])
                 /\ locals'.remaining_messages = Tail(locals.remaining_messages)]_vars

\* a returned run in which a single-item call failed and the message after
\* the unclassified one was classified
C19_Witness ==
  /\ Returned("classify_with_adaptive_retry")
  /\ \E i \in DOMAIN calls :
       /\ calls[i].outcome = "raise"
       /\ calls[i].batch_size = 1
  /\ \A i \in DOMAIN calls : calls[i].outcome \in {"raise", "exact"}
  /\ Len(ret.results) = Len(call.messages)
  /\ \E i \in DOMAIN ret.results :
       /\ i < Len(ret.results)
       /\ ret.results[i].category = "unclassified"
       /\ ret.results[i + 1].category = CategoryOf(call.messages[i + 1])

(***************************************************************************)
(* C20  Whatever the classification service does (failed calls, or answers *)
(* that parse but do not hold one well-shaped entry per message of the     *)
(* batch), classify_with_adaptive_retry returns one result per input       *)
(* message, the i-th result being about the i-th message: its category, or *)
(* "unclassified".                                                         *)
(***************************************************************************)
C20_OneResultPerMessage ==
  Returned("classify_with_adaptive_retry") =>
    /\ Len(ret.results) = Len(call.messages)
    /\ \A i \in DOMAIN ret.results :
         i <= Len(call.messages) =>
           ret.results[i].category \in {CategoryOf(call.messages[i]), "unclassified"}

(***************************************************************************)
(* Vocabulary of the date-range properties.                                *)
(***************************************************************************)
\* the calendar date a timestamp text spells out, as a day number
WrittenDay(ts) == ts.wall \div 86400

\* the conversations whose creation timestamp parses
Dated == {k \in DOMAIN conversations : Parses(created_at(conversations[k]))}

CreationDays == {WrittenDay(created_at(conversations[k])) : k \in Dated}

(***************************************************************************)
(* C21  detect_date_range returns the earliest and the latest calendar     *)
(* date among the creation timestamps that parse; conversations whose      *)
(* creation timestamp does not parse are left out without an error; when   *)
(* the list is empty or no creation timestamp parses it returns            *)
(* (today, today); the start is never after the end.                       *)
(***************************************************************************)
C21_DateRangeOfParseableCreations ==
  Returned("detect_date_range") =>
    /\ ret.raised = "none"
    /\ ret.start_date <= ret.end_date
    /\ IF CreationDays = {}
       THEN ret.start_date = call.today /\ ret.end_date = call.today
       ELSE /\ ret.start_date \in CreationDays
            /\ ret.end_date \in CreationDays
            /\ \A d \in CreationDays : ret.start_date <= d /\ d <= ret.end_date

\* one creation timestamp parses, another does not, and the range is the
\* day of the one that parses
C21_Witness ==
  /\ Returned("detect_date_range")
  /\ Dated # {}
  /\ Dated # DOMAIN conversations
  /\ ret.start_date = ret.end_date
  /\ ret.start_date # call.today

(***************************************************************************)
(* C22  The creation timestamp of a conversation (Conversation.created_at) *)
(* is the timestamp of its first actual message, the first element of      *)
(* get_actual_messages(): entries that are not actual messages never       *)
(* determine it.                                                           *)
(***************************************************************************)
C22_CreationIsFirstActualMessage ==
  \A k \in DOMAIN conversations :
    LET actual == get_actual_messages(conversations[k])
    IN actual # <<>> => created_at(conversations[k]) = actual[1].timestamp

C30_TiersOnlyShrinkWithinACall ==
  (pc = "classify_loop" \/ Returned("classify_with_adaptive_retry")) =>
    /\ \A i, j \in DOMAIN calls :
         i < j => calls[j].batch_size <= calls[i].batch_size
    /\ calls = <<>> => (pc = "classify_loop" => locals.batch_sizes = call.batch_sizes)
    /\ calls # <<>> => calls[1].batch_size = current_batch_size(call.batch_sizes)
    /\ \E n \in 0..Len(call.batch_sizes) :
         locals.batch_sizes = SubSeq(call.batch_sizes, n + 1, Len(call.batch_sizes))

\* a second call with the default tiers, made after a call that ended at
\* tier 8, first tries all 50 messages at once, fails, and after a second
\* failure classifies messages 9 to 16, part of no failed batch of size 8,
\* at tier 8
C30_Witness ==
  /\ Returned("classify_with_adaptive_retry")
  /\ call.batch_sizes = DEFAULT_BATCH_SIZES
  /\ call.earlier = [made |-> TRUE, batch_sizes |-> <<8, 1>>]
  /\ Len(calls) > 3
  /\ calls[1].batch_size = 50 /\ calls[1].outcome = "raise"
  /\ calls[2].batch_size = 25 /\ calls[2].outcome = "raise"
  /\ \A i \in 3..Len(calls) : calls[i].batch_size = 8 /\ calls[i].outcome = "exact"

\* the sum of the count fields of a sequence of clusters
RECURSIVE SumOfCounts(_)
SumOfCounts(clusters) ==
  IF clusters = <<>> THEN 0 ELSE Head(clusters).count + SumOfCounts(Tail(clusters))

(***************************************************************************)
(* C29  The clusters returned by cluster_messages partition the input:     *)
(* every input message is a member of exactly one cluster, the members of  *)
(* a cluster are in input order, the count of a cluster is the number of   *)
(* its members and at least 1, and the counts add up to the number of      *)
(* input messages.                                                         *)
(***************************************************************************)
C29_ClustersPartitionInput ==
  ReturnedOk("cluster_messages") =>
    LET msgs == ClusterInput
        clusters == ret.clusters
    IN /\ \A c \in DOMAIN clusters :
            /\ clusters[c].count = Len(clusters[c].messages)
            /\ clusters[c].count >= 1
       /\ SumOfCounts(clusters) = Len(msgs)
       /\ \E cluster_of \in [DOMAIN msgs -> DOMAIN clusters] :
            \A c \in DOMAIN clusters :
              clusters[c].messages =
                InInputOrder(msgs, {i \in DOMAIN msgs : cluster_of[i] = c})

\* three messages in two clusters, one of them with two members that are
\* not neighbours in the input
C29_Witness ==
  /\ ReturnedOk("cluster_messages")
  /\ Len(ClusterInput) = 3
  /\ Len(ret.clusters) = 2
  /\ ret.clusters[1].messages = <<ClusterInput[1], ClusterInput[3]>>
  /\ ret.clusters[2].messages = <<ClusterInput[2]>>
  /\ ClusterInput[1] # ClusterInput[3]

(***************************************************************************)
(* Vocabulary of the script categorisation property.                       *)
(***************************************************************************)
CallFailed(i) == calls[i].outcome \in {"raise", "malformed"}

InitialCalls == {i \in DOMAIN calls : calls[i].phase = "initial"}
RetryCalls == {i \in DOMAIN calls : calls[i].phase = "retry"}

\* the calls a cluster was submitted in
SubmissionsOf(c) == {i \in DOMAIN calls : c \in Range(calls[i].batch)}

\* the clusters of the failed initial batches, in list order
RECURSIVE FailedInitialClusters(_)
FailedInitialClusters(i) ==
  IF i > Len(calls) THEN <<>>
  ELSE (IF calls[i].phase = "initial" /\ CallFailed(i) THEN calls[i].batch ELSE <<>>)
       \o FailedInitialClusters(i + 1)

\* the clusters of the initial batches, in the order of the calls
RECURSIVE InitialClusters(_)
InitialClusters(i) ==
  IF i > Len(calls) THEN <<>>
  ELSE (IF calls[i].phase = "initial" THEN calls[i].batch ELSE <<>>)
       \o InitialClusters(i + 1)

\* the clusters retried, in the order of the retries
RECURSIVE RetriedClusters(_)
RetriedClusters(i) ==
  IF i > Len(calls) THEN <<>>
  ELSE (IF calls[i].phase = "retry" THEN calls[i].batch ELSE <<>>)
       \o RetriedClusters(i + 1)

(***************************************************************************)
(* C24  categorize_and_generate_topics never raises when the service       *)
(* fails, and works in two phases.  First every cluster is submitted once, *)
(* in list order, in batches of at most 20.  Then exactly the clusters of  *)
(* the failed batches are retried one at a time, in order.  No cluster is  *)
(* submitted more than twice.  On return every cluster has category and    *)
(* topic set; they are both None when its batch and its retry failed, and  *)
(* such a cluster is reported under "uncategorized".                       *)
(***************************************************************************)
C24_TwoPhaseCategorisation ==
  Returned("categorize_and_generate_topics") =>
    LET n == call.clusters
    IN /\ ret.raised = "none"
       /\ Len(ret.clusters) = n
       /\ \A i \in InitialCalls, j \in RetryCalls : i < j
       /\ \A i \in DOMAIN calls :
            /\ Len(calls[i].batch) >= 1
            /\ Len(calls[i].batch) <= (IF i \in InitialCalls THEN 20 ELSE 1)
       /\ InitialClusters(1) = [c \in 1..n |-> c]
       /\ RetriedClusters(1) = FailedInitialClusters(1)
       /\ \A c \in 1..n :
            /\ Cardinality(SubmissionsOf(c)) <= 2
            /\ ret.clusters[c].category # "unset"
            /\ ret.clusters[c].topic # "unset"
            /\ (\A i \in SubmissionsOf(c) : CallFailed(i)) =>
                 /\ ret.clusters[c].category = None
                 /\ ret.clusters[c].topic = None
                 /\ reported_category(ret.clusters[c]) = "uncategorized"

\* 21 clusters: the batch of 20 failed, the batch of one succeeded; of the
\* 20 retries one failed and the others succeeded
C24_Witness ==
  /\ Returned("categorize_and_generate_topics")
  /\ call.clusters = 21
  /\ Len(calls) = 22
  /\ calls[1].outcome = "raise" /\ Len(calls[1].batch) = 20
  /\ calls[2].outcome = "exact" /\ calls[2].batch = <<21>>
  /\ \E c \in 1..20 :
       /\ ret.clusters[c].category = None
       /\ \A i \in SubmissionsOf(c) : CallFailed(i)
       /\ \A d \in (1..20) \ {c} : ret.clusters[d].category \in Range(SCRIPT_CATEGORIES)
  /\ ret.clusters[21].category \in Range(SCRIPT_CATEGORIES)

(***************************************************************************)
(* Vocabulary of the by-assignment partition properties.                   *)
(***************************************************************************)
\* the sum over the setters of a result of one of their counters
RECURSIVE SumOverSetters(_, _, _)
SumOverSetters(setters, S, field) ==
  IF S = {} THEN 0
  ELSE LET s == CHOOSE x \in S : TRUE
       IN setters[s][field] + SumOverSetters(setters, S \ {s}, field)

AssignmentTotal(field) ==
  SumOverSetters(ret.setters_by_assignment, DOMAIN ret.setters_by_assignment, field)

(***************************************************************************)
(* C25  The by-assignment pass partitions the core metrics: in a result of *)
(* analyze_conversations, the messages sent summed over the by-assignment  *)
(* setters equal the core total of messages sent, and the CREATOR messages *)
(* replied to within 48 h summed over the setters equal the core count.    *)
(***************************************************************************)
C25_AssignmentPartitionsCore ==
  ReturnedOk("analyze_conversations") =>
    /\ AssignmentTotal("total_messages_sent_from_mochi")
         = ret.summary.total_messages_sent
    /\ AssignmentTotal("creator_messages_with_reply_within_48h")
         = ret.summary.creator_messages_with_reply_within_48h

\* two owners, each with a CREATOR message, one of them without sent_by,
\* and a reply counted
C25_Witness ==
  /\ ReturnedOk("analyze_conversations")
  /\ Cardinality(DOMAIN ret.setters_by_assignment) = 2
  /\ \A s \in DOMAIN ret.setters_by_assignment :
       ret.setters_by_assignment[s].total_messages_sent_from_mochi >= 1
  /\ ret.summary.creator_messages_with_reply_within_48h >= 1
  /\ \E p \in CreatorPositions : MessageAt(p).sent_by = None

\* the sum over the by-assignment setters of one bin of one of their
\* histograms
RECURSIVE SumOverSettersAt(_, _, _, _)
SumOverSettersAt(setters, S, field, b) ==
  IF S = {} THEN 0
  ELSE LET s == CHOOSE x \in S : TRUE
       IN setters[s][field][b] + SumOverSettersAt(setters, S \ {s}, field, b)

AssignmentTotalAt(field, b) ==
  SumOverSettersAt(ret.setters_by_assignment, DOMAIN ret.setters_by_assignment,
                   field, b)

(***************************************************************************)
(* C26  The setter passes bucket by time of day as the time-series does,   *)
(* in the caller's time zone: in a result of analyze_conversations, for    *)
(* every time bin, setter_activity_by_time summed over the by-assignment   *)
(* setters equals the time-series' setter_activity_by_time, and likewise   *)
(* lead_activity_by_time.                                                  *)
(***************************************************************************)
C26_SetterBinsAreTimeSeriesBins ==
  ReturnedOk("analyze_conversations") =>
    \A b \in Range(TIME_BINS) :
      /\ AssignmentTotalAt("setter_activity_by_time", b)
           = ret.time_series.setter_activity_by_time[b]
      /\ AssignmentTotalAt("lead_activity_by_time", b)
           = ret.time_series.lead_activity_by_time[b]

\* the same equality for callers whose time zone is UTC
C26_SetterBinsAreUtcBins ==
  (ReturnedOk("analyze_conversations") /\ call.config.timezone = "UTC") =>
    \A b \in Range(TIME_BINS) :
      /\ AssignmentTotalAt("setter_activity_by_time", b)
           = ret.time_series.setter_activity_by_time[b]
      /\ AssignmentTotalAt("lead_activity_by_time", b)
           = ret.time_series.lead_activity_by_time[b]

(***************************************************************************)
(* Vocabulary of the day-coverage property.                                *)
(***************************************************************************)
\* the stage counts of one day entry, summed over the stages in S
RECURSIVE SumOfStages(_, _)
SumOfStages(stages, S) ==
  IF S = {} THEN 0
  ELSE LET st == CHOOSE x \in S : TRUE
       IN stages[st] + SumOfStages(stages, S \ {st})

\* all the stage counts of the day entries from the k-th on
RECURSIVE SumOfDays(_, _)
SumOfDays(days, k) ==
  IF k > Len(days) THEN 0
  ELSE SumOfStages(days[k].stages, DOMAIN days[k].stages) + SumOfDays(days, k + 1)

KnownStageConversations ==
  {k \in DOMAIN conversations : stage(conversations[k]) \in Range(STAGE_TYPES)}

(***************************************************************************)
(* C27  When the date range is auto-detected it covers the localized       *)
(* creation day of every conversation: in a result of analyze_conversations*)
(* without a configured range, whatever the time zone, all the stage       *)
(* counts of the day entries sum to the number of conversations whose      *)
(* stage is one of the 9 known stages.                                     *)
(***************************************************************************)
C27_DetectedRangeCoversEveryCreation ==
  (ReturnedOk("analyze_conversations") /\ ~call.config.has_range) =>
    SumOfDays(ret.time_series.stage_changes_by_day, 1)
      = Cardinality(KnownStageConversations)

\* the same equality for callers whose time zone is UTC
C27_DetectedRangeCoversUtcCreations ==
  (/\ ReturnedOk("analyze_conversations")
   /\ ~call.config.has_range
   /\ call.config.timezone = "UTC") =>
    SumOfDays(ret.time_series.stage_changes_by_day, 1)
      = Cardinality(KnownStageConversations)

(***************************************************************************)
(* C28  In both setter passes delayed_responses_by_time is 0 in all 8 time *)
(* bins for every setter and every input: the passes never count a delayed *)
(* response, neither when called alone nor in a result of                  *)
(* analyze_conversations whose time-series counts delayed responses for    *)
(* the same conversations.                                                 *)
(***************************************************************************)
C28_SetterDelayedResponsesAlwaysZero ==
  /\ (pc = "returned" /\ call.fn \in SetterPasses /\ ret.raised = "none") =>
       \A s \in DOMAIN ret.setters : ZeroFilled(ret.setters[s].delayed_responses_by_time)
  /\ ReturnedOk("analyze_conversations") =>
       /\ \A s \in DOMAIN ret.setters_by_sent_by :
            ZeroFilled(ret.setters_by_sent_by[s].delayed_responses_by_time)
       /\ \A s \in DOMAIN ret.setters_by_assignment :
            ZeroFilled(ret.setters_by_assignment[s].delayed_responses_by_time)

\* the time-series counts a delayed response of a CREATOR message that both
\* passes attribute to a setter
C28_Witness ==
  /\ ReturnedOk("analyze_conversations")
  /\ ~ZeroFilled(ret.time_series.delayed_responses_by_time)
  /\ \E p \in CreatorPositions :
       /\ DelayedAfterLead(ActualMessages(p[1]), p[2])
       /\ MessageAt(p).sent_by \in DOMAIN ret.setters_by_sent_by
       /\ conversations[p[1]].setter_email \in DOMAIN ret.setters_by_assignment
       /\ ret.setters_by_sent_by[MessageAt(p).sent_by].total_messages_sent_from_mochi >= 1

====
